---- MODULE Spec2Model ----
(***************************************************************************)
(* The HTML template engine of lib/template-engine.js (loadTemplate,       *)
(* resolveCustomElements, findCustomElements, evaluateTemplate,            *)
(* createSafeContext, isSafeValue, generateErrorTemplate, the two caches)  *)
(* and the handler call that renders the main page through it.             *)
(*                                                                         *)
(* Text.  A JavaScript string is a sequence of elements.  An element is    *)
(*   - a character: a one-character string such as "<", "x", "$";          *)
(*   - the source text of one template-literal expression, kept whole:     *)
(*     "${value}" (the elements of DOMAIN ExprSource).  It contains none   *)
(*     of < > / and no white space, so the regular expressions of the      *)
(*     engine see it as one ordinary character;                            *)
(*   - a run of literal text kept whole, such as "Template Evaluation      *)
(*     Error" or "[object Object]".  Such a run contains none of the       *)
(*     characters < > / $ and does not start with the name of a tag that   *)
(*     the model uses as a custom element.                                 *)
(* Backslash and backtick do not occur in the texts of the model.          *)
(***************************************************************************)
EXTENDS Integers, Sequences, FiniteSets, TLC

VARIABLES
    files,               \* the file system under the package: path -> content
    nodeEnv,             \* process.env.NODE_ENV
    templateCache,       \* the Map templateCache: cache key -> evaluated HTML
    customElementCache,  \* the Map customElementCache
    last,                \* the outcome of the latest call, as the caller sees it
    recentCalls,         \* what a caller that repeats calls keeps of them: the
                         \* latest call and the one before it, as long as they were
                         \* made in production mode and the caches were not cleared
    pending,             \* the calls of loadTemplate in flight: caller -> what the
                         \* call holds while it waits for readFile
    testResults,         \* the handler's testResults: field -> value
    posted,              \* what a client of the handler keeps of its latest POST
                         \* to /html-test/results.json
    reporter,            \* the TAPReporter of the page: output and testCount
    testOutput,          \* the test-output component: lines and testResults
    suite,               \* the TestSuite of the test framework, and how far its
                         \* run has come
    runner               \* the TestRunner: isRunning, testResults, and the calls
                         \* of runAllTests

vars == <<files, nodeEnv, templateCache, customElementCache, last, recentCalls, pending,
          testResults, posted, reporter, testOutput, suite, runner>>

\* The variables of the template engine, and the variables outside it
engineVars == <<files, nodeEnv, templateCache, customElementCache, recentCalls, pending>>

exceptEngine == <<testResults, posted, reporter, testOutput, suite, runner>>

\* The variables of the handler's results, and the variables of the page
handlerVars == <<testResults, posted>>

pageVars == <<reporter, testOutput, suite, runner>>

(***************************************************************************)
(* Characters                                                              *)
(***************************************************************************)
LowerLetters == {"a", "b", "c", "d", "e", "f", "g", "h", "i", "j", "k", "l", "m", "n", "o", "p", "q", "r", "s", "t", "u", "v", "w", "x", "y", "z"}

UpperLetters == {"A", "B", "C", "D", "E", "F", "G", "H", "I", "J", "K", "L", "M", "N", "O", "P", "Q", "R", "S", "T", "U", "V", "W", "X", "Y", "Z"}

Digits == {"0", "1", "2", "3", "4", "5", "6", "7", "8", "9"}

Letters == LowerLetters \cup UpperLetters

\* [a-zA-Z0-9-]
NameChars == Letters \cup Digits \cup {"-"}

\* \s
Whitespace == {" ", "\n", "\t"}

LowerOf ==
    "A" :> "a" @@ "B" :> "b" @@ "C" :> "c" @@ "D" :> "d" @@ "E" :> "e" @@ "F" :> "f"
    @@ "G" :> "g" @@ "H" :> "h" @@ "I" :> "i" @@ "J" :> "j" @@ "K" :> "k" @@ "L" :> "l"
    @@ "M" :> "m" @@ "N" :> "n" @@ "O" :> "o" @@ "P" :> "p" @@ "Q" :> "q" @@ "R" :> "r"
    @@ "S" :> "s" @@ "T" :> "t" @@ "U" :> "u" @@ "V" :> "v" @@ "W" :> "w" @@ "X" :> "x"
    @@ "Y" :> "y" @@ "Z" :> "z"

\* String.prototype.toLowerCase on one element, and the i flag of a RegExp
toLowerCase(c) == IF c \in UpperLetters THEN LowerOf[c] ELSE c

LowerAll(s) == [k \in 1..Len(s) |-> toLowerCase(s[k])]

\* The least index of a set of indexes, or 0: a scan from the left stops at the
\* first index that matches
First(indexes) ==
    IF indexes = {} THEN 0 ELSE CHOOSE k \in indexes : \A j \in indexes : k <= j

\* The first index k >= from with s[k] = c, or 0
IndexOf(s, c, from) == First({k \in from..Len(s) : s[k] = c})

\* s has t at index i, letters compared without case (t is lower case)
MatchesAt(s, i, t) ==
    /\ i >= 1
    /\ i + Len(t) - 1 <= Len(s)
    /\ \A k \in 1..Len(t) : toLowerCase(s[i + k - 1]) = t[k]

\* String.prototype.includes: t occurs in s (case-sensitive)
Includes(s, t) ==
    \E i \in 1..(Len(s) - Len(t) + 1) : \A k \in 1..Len(t) : s[i + k - 1] = t[k]

RECURSIVE Flatten(_)
Flatten(ss) == IF ss = <<>> THEN <<>> ELSE Head(ss) \o Flatten(Tail(ss))

(***************************************************************************)
(* findCustomElements                                                      *)
(***************************************************************************)
standardElements == {
    <<"h", "t", "m", "l">>, <<"h", "e", "a", "d">>, <<"t", "i", "t", "l", "e">>,
    <<"m", "e", "t", "a">>, <<"l", "i", "n", "k">>, <<"s", "t", "y", "l", "e">>,
    <<"s", "c", "r", "i", "p", "t">>, <<"b", "o", "d", "y">>, <<"h", "e", "a", "d", "e", "r">>,
    <<"n", "a", "v">>, <<"m", "a", "i", "n">>, <<"s", "e", "c", "t", "i", "o", "n">>,
    <<"a", "r", "t", "i", "c", "l", "e">>, <<"a", "s", "i", "d", "e">>,
    <<"f", "o", "o", "t", "e", "r">>, <<"h", "1">>, <<"h", "2">>, <<"h", "3">>, <<"h", "4">>,
    <<"h", "5">>, <<"h", "6">>, <<"p">>, <<"d", "i", "v">>, <<"s", "p", "a", "n">>,
    <<"b", "r">>, <<"h", "r">>, <<"u", "l">>, <<"o", "l">>, <<"l", "i">>, <<"d", "l">>,
    <<"d", "t">>, <<"d", "d">>, <<"a">>, <<"s", "t", "r", "o", "n", "g">>, <<"e", "m">>,
    <<"s", "m", "a", "l", "l">>, <<"m", "a", "r", "k">>, <<"d", "e", "l">>, <<"i", "n", "s">>,
    <<"s", "u", "p">>, <<"s", "u", "b">>, <<"b", "l", "o", "c", "k", "q", "u", "o", "t", "e">>,
    <<"c", "i", "t", "e">>, <<"a", "b", "b", "r">>, <<"a", "d", "d", "r", "e", "s", "s">>,
    <<"t", "i", "m", "e">>, <<"i", "m", "g">>, <<"f", "i", "g", "u", "r", "e">>,
    <<"f", "i", "g", "c", "a", "p", "t", "i", "o", "n">>, <<"a", "u", "d", "i", "o">>,
    <<"v", "i", "d", "e", "o">>, <<"s", "o", "u", "r", "c", "e">>, <<"t", "r", "a", "c", "k">>,
    <<"c", "a", "n", "v", "a", "s">>, <<"s", "v", "g">>, <<"p", "a", "t", "h">>,
    <<"c", "i", "r", "c", "l", "e">>, <<"r", "e", "c", "t">>, <<"l", "i", "n", "e">>,
    <<"p", "o", "l", "y", "l", "i", "n", "e">>, <<"p", "o", "l", "y", "g", "o", "n">>,
    <<"e", "l", "l", "i", "p", "s", "e">>, <<"t", "a", "b", "l", "e">>,
    <<"t", "h", "e", "a", "d">>, <<"t", "b", "o", "d", "y">>, <<"t", "f", "o", "o", "t">>,
    <<"t", "r">>, <<"t", "h">>, <<"t", "d">>, <<"c", "a", "p", "t", "i", "o", "n">>,
    <<"c", "o", "l", "g", "r", "o", "u", "p">>, <<"c", "o", "l">>, <<"f", "o", "r", "m">>,
    <<"i", "n", "p", "u", "t">>, <<"t", "e", "x", "t", "a", "r", "e", "a">>,
    <<"b", "u", "t", "t", "o", "n">>, <<"s", "e", "l", "e", "c", "t">>,
    <<"o", "p", "t", "i", "o", "n">>, <<"o", "p", "t", "g", "r", "o", "u", "p">>,
    <<"l", "a", "b", "e", "l">>, <<"f", "i", "e", "l", "d", "s", "e", "t">>,
    <<"l", "e", "g", "e", "n", "d">>, <<"d", "a", "t", "a", "l", "i", "s", "t">>,
    <<"o", "u", "t", "p", "u", "t">>, <<"p", "r", "o", "g", "r", "e", "s", "s">>,
    <<"m", "e", "t", "e", "r">>, <<"d", "e", "t", "a", "i", "l", "s">>,
    <<"s", "u", "m", "m", "a", "r", "y">>, <<"d", "i", "a", "l", "o", "g">>,
    <<"t", "e", "m", "p", "l", "a", "t", "e">>, <<"s", "l", "o", "t">>
    }

\* The end of the greedy run [a-zA-Z0-9-]* that starts at index j
RECURSIVE NameEnd(_, _)
NameEnd(html, j) ==
    IF j + 1 <= Len(html) /\ html[j + 1] \in NameChars
    THEN NameEnd(html, j + 1)
    ELSE j

\* tagName.includes('-') || !standardElements.has(tagName)
IsCustomTag(tagName) ==
    \/ \E k \in 1..Len(tagName) : tagName[k] = "-"
    \/ tagName \notin standardElements

\* A mutation of AlreadyFound: no tag name counts as found before
AlreadyFound_never(customElements, tagName) == FALSE

\* customElements.some(el => el.tagName === tagName)
AlreadyFound(customElements, tagName) ==
    \E k \in 1..Len(customElements) : customElements[k].tagName = tagName

\* The exec loop of /<([a-zA-Z][a-zA-Z0-9-]*)[^>]*>/gi from index i on.  A match
\* starts at a "<" followed by a letter and ends at the first ">" after the
\* name; when no ">" is left, no later start can match either.
RECURSIVE FindFrom(_, _, _)
FindFrom(html, i, customElements) ==
    IF i + 1 > Len(html) THEN customElements
    ELSE IF html[i] = "<" /\ html[i + 1] \in Letters
    THEN LET e       == NameEnd(html, i + 1)
             g       == IndexOf(html, ">", e + 1)
             tagName == LowerAll(SubSeq(html, i + 1, e))
         IN  IF g = 0 THEN customElements
             ELSE IF IsCustomTag(tagName) /\ ~AlreadyFound(customElements, tagName)
             THEN FindFrom(html, g + 1,
                      Append(customElements,
                             [tagName |-> tagName, fullMatch |-> SubSeq(html, i, g)]))
             ELSE FindFrom(html, g + 1, customElements)
    ELSE LET next == IndexOf(html, "<", i + 1)
         IN  IF next = 0 THEN customElements ELSE FindFrom(html, next, customElements)

findCustomElements(html) == FindFrom(html, 1, <<>>)

(***************************************************************************)
(* String.prototype.replace with the two global RegExps of                 *)
(* resolveCustomElements                                                   *)
(***************************************************************************)
NoMatch == [end |-> 0, groups |-> <<>>]

\* The last index in s..e that holds no white space, or s - 1
RECURSIVE TrimEnd(_, _, _)
TrimEnd(html, s, e) ==
    IF e < s THEN e
    ELSE IF html[e] \in Whitespace THEN TrimEnd(html, s, e - 1)
    ELSE e

\* new RegExp(`<${tagName}([^>]*?)\\s*/>`, 'gi') tried at index i: the ">" of
\* the match is the first ">" after the name and the "/" stands right before it.
MatchSelfClosing(html, i, tagName) ==
    IF html[i] = "<" /\ MatchesAt(html, i + 1, tagName)
    THEN LET s == i + 1 + Len(tagName)
             g == IndexOf(html, ">", s)
         IN  IF g > s /\ html[g - 1] = "/"
             THEN [end |-> g, groups |-> <<SubSeq(html, s, TrimEnd(html, s, g - 2))>>]
             ELSE NoMatch
    ELSE NoMatch

\* The first index c >= from where `</${tagName}>` stands, or 0
FindClose(html, from, tagName) ==
    First({c \in from..(Len(html) - Len(tagName) - 2) :
              /\ html[c] = "<"
              /\ html[c + 1] = "/"
              /\ MatchesAt(html, c + 2, tagName)
              /\ html[c + 2 + Len(tagName)] = ">"})

\* new RegExp(`<${tagName}([^>]*?)>(.*?)</${tagName}>`, 'gis') tried at index i
MatchWithContent(html, i, tagName) ==
    IF html[i] = "<" /\ MatchesAt(html, i + 1, tagName)
    THEN LET s == i + 1 + Len(tagName)
             g == IndexOf(html, ">", s)
             c == IF g = 0 THEN 0 ELSE FindClose(html, g + 1, tagName)
         IN  IF c # 0
             THEN [end    |-> c + 2 + Len(tagName),
                   groups |-> <<SubSeq(html, s, g - 1), SubSeq(html, g + 1, c - 1)>>]
             ELSE NoMatch
    ELSE NoMatch

RegexMatch(html, i, form, tagName) ==
    IF form = "selfClosing"
    THEN MatchSelfClosing(html, i, tagName)
    ELSE MatchWithContent(html, i, tagName)

DigitValue ==
    "0" :> 0 @@ "1" :> 1 @@ "2" :> 2 @@ "3" :> 3 @@ "4" :> 4
    @@ "5" :> 5 @@ "6" :> 6 @@ "7" :> 7 @@ "8" :> 8 @@ "9" :> 9

\* The elements that hold the source text of a template-literal expression
\* (the text starts with "${")
ExprTexts ==
    {"${value}", "${undefinedVariable}", "${process}", "${globalThis}",
     "${env.NODE_ENV}", "${env.NODE_ENV='development'}",
     "${process.env.NODE_ENV='development'}", "${escape(value)}",
     "${env.NODE_ENV='production'}"}

\* GetSubstitution of ECMAScript: the expansion of the replacement string from
\* index k on, for a match str[position..end] with the captures `groups`.
\* "$$" gives "$"; a "$" before an expression text is the "$$" of "$${...}".
RECURSIVE Substitute(_, _, _, _, _, _)
Substitute(replacement, k, str, position, end, groups) ==
    IF k > Len(replacement) THEN <<>>
    ELSE IF replacement[k] = "$" /\ k + 1 <= Len(replacement)
    THEN LET n  == replacement[k + 1]
             m  == Len(groups)
             d1 == IF n \in Digits THEN DigitValue[n] ELSE 0
             two == /\ n \in Digits
                    /\ k + 2 <= Len(replacement)
                    /\ replacement[k + 2] \in Digits
             d2 == IF two THEN 10 * d1 + DigitValue[replacement[k + 2]] ELSE 0
         IN  IF n = "$"
             THEN <<"$">> \o Substitute(replacement, k + 2, str, position, end, groups)
             ELSE IF n \in ExprTexts
             THEN <<n>> \o Substitute(replacement, k + 2, str, position, end, groups)
             ELSE IF n = "&"
             THEN SubSeq(str, position, end)
                  \o Substitute(replacement, k + 2, str, position, end, groups)
             ELSE IF n = "`"
             THEN SubSeq(str, 1, position - 1)
                  \o Substitute(replacement, k + 2, str, position, end, groups)
             ELSE IF n = "'"
             THEN SubSeq(str, end + 1, Len(str))
                  \o Substitute(replacement, k + 2, str, position, end, groups)
             ELSE IF two /\ d2 >= 1 /\ d2 <= m
             THEN groups[d2] \o Substitute(replacement, k + 3, str, position, end, groups)
             ELSE IF d1 >= 1 /\ d1 <= m
             THEN groups[d1] \o Substitute(replacement, k + 2, str, position, end, groups)
             ELSE <<"$">> \o Substitute(replacement, k + 1, str, position, end, groups)
    ELSE \* the text up to the next "$" is copied
         LET d == IndexOf(replacement, "$", k + 1)
         IN  IF d = 0 THEN SubSeq(replacement, k, Len(replacement))
             ELSE SubSeq(replacement, k, d - 1)
                  \o Substitute(replacement, d, str, position, end, groups)

\* The global replace from index i on: the text up to the leftmost match is
\* copied, the match gives way to the expansion of the replacement, and the
\* scan goes on after the match.
RECURSIVE ReplaceFrom(_, _, _, _, _)
ReplaceFrom(str, i, form, tagName, replacement) ==
    LET position == First({j \in i..Len(str) : RegexMatch(str, j, form, tagName).end # 0})
    IN  IF position = 0 THEN SubSeq(str, i, Len(str))
        ELSE LET m == RegexMatch(str, position, form, tagName)
             IN  SubSeq(str, i, position - 1)
                 \o Substitute(replacement, 1, str, position, m.end, m.groups)
                 \o ReplaceFrom(str, m.end + 1, form, tagName, replacement)

\* processedHTML.replace(regex, elementHTML)
replace(str, form, tagName, replacement) ==
    ReplaceFrom(str, 1, form, tagName, replacement)

(***************************************************************************)
(* JavaScript values.  A value is a record: type is the result of typeof,  *)
(* class names the constructor of an object, id tells objects apart, text  *)
(* is its String() conversion, NODE_ENV is its own property NODE_ENV       *)
(* ("" when it has none).                                                  *)
(***************************************************************************)
Value(type, class, id, text, nodeEnvProp) ==
    [type |-> type, class |-> class, id |-> id, text |-> text, NODE_ENV |-> nodeEnvProp]

Str(chars) == Value("string", "", "", chars, "")

Undefined == Value("undefined", "", "", <<"undefined">>, "")

\* A function of the caller, e.g. () => 1
CallerFunction == Value("function", "Function", "caller.fn", <<"() => 1">>, "")

\* {} and [] of the caller
PlainObject == Value("object", "Object", "caller.object", <<"[object Object]">>, "")

EmptyArray == Value("object", "Array", "caller.array", <<>>, "")

\* new Map() of the caller: an object that is neither plain nor Date, String, Number
MapInstance == Value("object", "Map", "caller.map", <<"[object Map]">>, "")

\* The live process.env object
ProcessEnv == Value("object", "Object", "process.env", <<"[object Object]">>, "")

\* { ...process.env }: a copy that holds the NODE_ENV of the moment
EnvSnapshot(mode) == Value("object", "Object", "snapshot", <<"[object Object]">>, mode)

Builtin(type, class, name, text) == Value(type, class, "engine." \o name, text, "")

\* The names a body made by new Function resolves in the global scope of the
\* host when no binding of the function shadows them
Globals ==
    "process" :> Value("object", "process", "process", <<"[object process]">>, "")
    @@ "globalThis" :> Value("object", "Object", "globalThis", <<"[object global]">>, "")
    @@ "eval" :> Value("function", "Function", "global.eval",
                       <<"function eval() { [native code] }">>, "")
    @@ "Function" :> Value("function", "Function", "global.Function",
                           <<"function Function() { [native code] }">>, "")

\* Names that cannot be bound by `const { ... } = arguments[0]` in strict code
InvalidBindingNames == {"my-key", "class", "arguments"}

(***************************************************************************)
(* A context is the sequence of the entries of the caller's object, in     *)
(* insertion order (Object.entries, Object.keys): [key, value].            *)
(***************************************************************************)
Entry(key, value) == [key |-> key, value |-> value]

Keys(context) == [k \in 1..Len(context) |-> context[k].key]

allowedKeys == {"env", "testFiles", "config", "testFile", "requestPath", "requestMethod"}

dangerousKeys == {"eval", "Function", "constructor", "__proto__", "prototype"}

\* A mutation of isSafeValue: functions are let through
isSafeValue_functionsPass(key, value) ==
    IF key \in allowedKeys THEN TRUE
    ELSE IF key \in dangerousKeys THEN FALSE
    ELSE IF value.type = "object"
    THEN value.class \in {"Object", "Array", "Date", "String", "Number"}
    ELSE TRUE

isSafeValue(key, value) ==
    IF key \in allowedKeys THEN TRUE
    ELSE IF key \in dangerousKeys THEN FALSE
    ELSE IF value.type = "function" THEN FALSE
    ELSE IF value.type = "object"
    THEN value.class \in {"Object", "Array", "Date", "String", "Number"}
    ELSE TRUE

\* The object literal that createSafeContext starts from
baseContext(mode) ==
    "env" :> EnvSnapshot(mode)
    @@ "encodeURIComponent" :> Builtin("function", "Function", "encodeURIComponent",
           <<"function encodeURIComponent() { [native code] }">>)
    @@ "decodeURIComponent" :> Builtin("function", "Function", "decodeURIComponent",
           <<"function decodeURIComponent() { [native code] }">>)
    @@ "parseInt" :> Builtin("function", "Function", "parseInt",
           <<"function parseInt() { [native code] }">>)
    @@ "parseFloat" :> Builtin("function", "Function", "parseFloat",
           <<"function parseFloat() { [native code] }">>)
    @@ "Math" :> Builtin("object", "Math", "Math", <<"[object Math]">>)
    @@ "Date" :> Builtin("function", "Function", "Date",
           <<"function Date() { [native code] }">>)
    @@ "JSON" :> Builtin("object", "JSON", "JSON", <<"[object JSON]">>)
    @@ "escape" :> Builtin("function", "Function", "escape", <<"(str) => String(str)...">>)
    @@ "map" :> Builtin("function", "Function", "map", <<"(array, fn) => ...">>)
    @@ "filter" :> Builtin("function", "Function", "filter", <<"(array, fn) => ...">>)
    @@ "join" :> Builtin("function", "Function", "join", <<"(array, separator) => ...">>)

\* The loop over Object.entries(context) from entry k on: safe is the object
\* built so far, warned the keys console.warn was called for
RECURSIVE AddEntries(_, _, _, _)
AddEntries(context, k, safe, warned) ==
    IF k > Len(context) THEN [safe |-> safe, warned |-> warned]
    ELSE IF isSafeValue(context[k].key, context[k].value)
    THEN AddEntries(context, k + 1,
                    (context[k].key :> context[k].value) @@ safe, warned)
    ELSE AddEntries(context, k + 1, safe, Append(warned, context[k].key))

\* A mutation of createSafeContext: the object starts empty, without the
\* engine's utilities
createSafeContext_noUtilities(context, mode) == AddEntries(context, 1, <<>>, <<>>)

createSafeContext(context, mode) == AddEntries(context, 1, baseContext(mode), <<>>)

(***************************************************************************)
(* Template-literal expressions.  ExprSource gives the parse of each       *)
(* expression text: "read" reads the property path, "assign" assigns the   *)
(* string arg to it, "call" calls path[1] with the identifier arg.         *)
(***************************************************************************)
Expr(op, path, arg) == [op |-> op, path |-> path, arg |-> arg]

ExprSource ==
    "${value}" :> Expr("read", <<"value">>, "")
    @@ "${undefinedVariable}" :> Expr("read", <<"undefinedVariable">>, "")
    @@ "${process}" :> Expr("read", <<"process">>, "")
    @@ "${globalThis}" :> Expr("read", <<"globalThis">>, "")
    @@ "${env.NODE_ENV}" :> Expr("read", <<"env", "NODE_ENV">>, "")
    @@ "${env.NODE_ENV='development'}" :> Expr("assign", <<"env", "NODE_ENV">>, "development")
    @@ "${process.env.NODE_ENV='development'}"
           :> Expr("assign", <<"process", "env", "NODE_ENV">>, "development")
    @@ "${escape(value)}" :> Expr("call", <<"escape">>, "value")
    @@ "${env.NODE_ENV='production'}" :> Expr("assign", <<"env", "NODE_ENV">>, "production")

NoError == [name |-> "", message |-> <<>>, stack |-> <<>>]

Error(name, message) ==
    [name |-> name, message |-> message,
     stack |-> <<name, ": ">> \o message \o <<"\n", "at eval (eval at evaluateTemplate)">>]

\* String.prototype.replace(/c/g, t): every element c of s gives way to t
ReplaceAll(s, c, t) == Flatten([k \in 1..Len(s) |-> IF s[k] = c THEN t ELSE <<s[k]>>])

\* A mutation of escape: the replace of the single quote is left out
escape_keepsSingleQuote(str) ==
    ReplaceAll(ReplaceAll(ReplaceAll(ReplaceAll(str,
        "&", <<"&", "a", "m", "p", ";">>),
        "<", <<"&", "l", "t", ";">>),
        ">", <<"&", "g", "t", ";">>),
        "\"", <<"&", "q", "u", "o", "t", ";">>)

\* The escape function of the safe context: the five replaces in their order
escape(str) ==
    ReplaceAll(ReplaceAll(ReplaceAll(ReplaceAll(ReplaceAll(str,
        "&", <<"&", "a", "m", "p", ";">>),
        "<", <<"&", "l", "t", ";">>),
        ">", <<"&", "g", "t", ";">>),
        "\"", <<"&", "q", "u", "o", "t", ";">>),
        "'", <<"&", "#", "x", "2", "7", ";">>)

\* An identifier in the scope of the template function: a binding destructured
\* from the safe context, else a name of the global scope, else a ReferenceError
InScope(name, ctx) == name \in DOMAIN ctx \/ name \in DOMAIN Globals

Lookup(name, ctx) == IF name \in DOMAIN ctx THEN ctx[name] ELSE Globals[name]

\* value[prop], with mode the NODE_ENV of the process
GetProp(value, prop, mode) ==
    IF value.id = "process" /\ prop = "env" THEN ProcessEnv
    ELSE IF prop = "NODE_ENV"
    THEN LET p == IF value.id = "process.env" THEN mode ELSE value.NODE_ENV
         IN  IF p = "" THEN Undefined ELSE Str(<<p>>)
    ELSE Undefined

\* The value of path[1].path[2]. ... .path[n], for path[1] in scope
RECURSIVE GetPath(_, _, _, _)
GetPath(path, n, ctx, mode) ==
    IF n = 1 THEN Lookup(path[1], ctx)
    ELSE GetProp(GetPath(path, n - 1, ctx, mode), path[n], mode)

\* A property read or write on undefined throws a TypeError
RECURSIVE PathThrows(_, _, _, _)
PathThrows(path, n, ctx, mode) ==
    IF n <= 1 THEN FALSE
    ELSE \/ PathThrows(path, n - 1, ctx, mode)
         \/ GetPath(path, n - 1, ctx, mode).type = "undefined"

\* One expression, evaluated in strict code with the bindings ctx.  The result
\* holds the value, the NODE_ENV of the process and the bindings afterwards, and
\* the error thrown (NoError when none).
EvalExpr(e, ctx, mode) ==
    LET n      == Len(e.path)
        Result(value, m, c, error) ==
            [value |-> value, mode |-> m, ctx |-> c, error |-> error]
        Throw(name, message) == Result(Undefined, mode, ctx, Error(name, message))
    IN  IF ~InScope(e.path[1], ctx)
        THEN Throw("ReferenceError", <<e.path[1], " is not defined">>)
        ELSE IF PathThrows(e.path, n, ctx, mode)
        THEN Throw("TypeError", <<"Cannot read properties of undefined">>)
        ELSE IF e.op = "read"
        THEN Result(GetPath(e.path, n, ctx, mode), mode, ctx, NoError)
        ELSE IF e.op = "assign"
        THEN LET target == GetPath(e.path, n - 1, ctx, mode)
             IN  IF target.type = "string"
                 THEN Throw("TypeError", <<"Cannot create property 'NODE_ENV' on string">>)
                 ELSE IF target.id = "process.env"
                 THEN Result(Str(<<e.arg>>), e.arg, ctx, NoError)
                 ELSE IF n = 2 /\ e.path[1] \in DOMAIN ctx
                 THEN Result(Str(<<e.arg>>), mode,
                             [ctx EXCEPT ![e.path[1]].NODE_ENV = e.arg], NoError)
                 ELSE Result(Str(<<e.arg>>), mode, ctx, NoError)
        ELSE \* "call"
             IF ~InScope(e.arg, ctx)
             THEN Throw("ReferenceError", <<e.arg, " is not defined">>)
             ELSE IF Lookup(e.path[1], ctx).id # "engine.escape"
             THEN Throw("TypeError", <<e.path[1], " is not a function">>)
             ELSE Result(Str(escape(Lookup(e.arg, ctx).text)), mode, ctx, NoError)

\* The template literal `${template}` from element i on: text is copied, each
\* expression is evaluated in order and its String() conversion appended; the
\* first error ends the evaluation.
RECURSIVE EvalFrom(_, _, _)
EvalFrom(template, i, acc) ==
    LET j == First({k \in i..Len(template) : template[k] \in ExprTexts})
    IN  IF j = 0
        THEN [acc EXCEPT !.html = @ \o SubSeq(template, i, Len(template))]
        ELSE LET r == EvalExpr(ExprSource[template[j]], acc.ctx, acc.mode)
             IN  IF r.error # NoError
                 THEN [acc EXCEPT !.html  = @ \o SubSeq(template, i, j - 1),
                                  !.error = r.error]
                 ELSE EvalFrom(template, j + 1,
                               [html  |-> acc.html \o SubSeq(template, i, j - 1)
                                          \o r.value.text,
                                mode  |-> r.mode,
                                ctx   |-> r.ctx,
                                error |-> NoError])

\* A mutation of EvaluationErrorMarkup: the source of the template is left out
EvaluationErrorMarkup_noSource(template, error) ==
    <<"\n", "<", "div style=\"border: 2px solid red;\"", ">", "\n", "<", "h3", ">",
      "Template Evaluation Error", "<", "/h3", ">", "\n", "<", "pre", ">">>
    \o error.message
    \o <<"<", "/pre", ">", "\n", "<", "/div", ">", "\n">>

\* The markup evaluateTemplate returns from its catch block in development
EvaluationErrorMarkup(template, error) ==
    <<"\n", "<",
      "div style=\"border: 2px solid red; padding: 16px; margin: 16px; background: #ffe6e6;\"",
      ">", "\n", "<", "h3", ">", "Template Evaluation Error", "<", "/h3", ">", "\n", "<",
      "pre", ">">>
    \o error.message
    \o <<"<", "/pre", ">", "\n", "<", "details", ">", "\n", "<", "summary", ">",
      "Original Template", "<", "/summary", ">", "\n", "<", "pre", ">">>
    \o template
    \o <<"<", "/pre", ">", "\n", "<", "/details", ">", "\n", "<", "/div", ">", "\n">>

\* A mutation of evaluateCatch: the diagnostic is returned in every mode
evaluateCatch_everyMode(template, error, mode) ==
    [kind |-> "return", html |-> EvaluationErrorMarkup(template, error), error |-> NoError]

\* The catch block of evaluateTemplate
evaluateCatch(template, error, mode) ==
    IF mode = "development"
    THEN [kind |-> "return", html |-> EvaluationErrorMarkup(template, error),
          error |-> NoError]
    ELSE [kind |-> "throw", html |-> <<>>, error |-> error]

\* evaluateTemplate(template, context) with NODE_ENV = mode.  new Function
\* throws a SyntaxError when a key of the safe context cannot be a binding.
evaluateTemplate(template, context, mode) ==
    LET \* the value of the call: out is what the try or the catch block gives
        Result(built, run, out) ==
            [kind        |-> out.kind,
             html        |-> out.html,
             error       |-> out.error,
             mode        |-> run.mode,
             threw       |-> run.error # NoError,
             caught      |-> run.error,
             safeContext |-> built.safe,
             warned      |-> built.warned]
        \* try { return templateFunction(safeContext) } catch (error) { ... }
        Try(built, run) ==
            Result(built, run,
                   IF run.error = NoError
                   THEN [kind |-> "return", html |-> run.html, error |-> NoError]
                   ELSE evaluateCatch(template, run.error, run.mode))
        \* new Function(...) and the call of the function it makes
        Run(built) ==
            Try(built,
                IF \E key \in DOMAIN built.safe : key \in InvalidBindingNames
                THEN [html |-> <<>>, mode |-> mode, ctx |-> built.safe,
                      error |-> Error("SyntaxError", <<"Unexpected token">>)]
                ELSE EvalFrom(template, 1,
                              [html |-> <<>>, mode |-> mode, ctx |-> built.safe,
                               error |-> NoError]))
    IN  Run(createSafeContext(context, mode))

(***************************************************************************)
(* Paths.  A path is a sequence of segments, a segment a sequence of       *)
(* elements: components/x.html is <<<<"components">>, <<"x", ".html">>>>.  *)
(***************************************************************************)
\* path.join: the segments of both, "." dropped and ".." resolved
RECURSIVE Normalize(_, _)
Normalize(segments, done) ==
    IF segments = <<>> THEN done
    ELSE IF Head(segments) = <<".">> \/ Head(segments) = <<>>
    THEN Normalize(Tail(segments), done)
    ELSE IF Head(segments) = <<"..">>
    THEN Normalize(Tail(segments),
                   IF done = <<>> THEN <<>> ELSE SubSeq(done, 1, Len(done) - 1))
    ELSE Normalize(Tail(segments), Append(done, Head(segments)))

join(a, b) == Normalize(a \o b, <<>>)

\* join(dirname(__dirname), 'templates')
templatesDir == <<<<"app">>, <<"templates">>>>

\* The text of a path: its segments with "/" between them
RECURSIVE PathText(_)
PathText(path) ==
    IF path = <<>> THEN <<>>
    ELSE IF Len(path) = 1 THEN path[1]
    ELSE path[1] \o <<"/">> \o PathText(Tail(path))

\* `components/${element.tagName}.html`
componentPath(tagName) == <<<<"components">>, tagName \o <<".html">>>>

\* The markup generateErrorTemplate returns
generateErrorTemplate(templatePath, error) ==
    <<"\n", "<", "!DOCTYPE html", ">", "\n", "<", "html lang=\"en\"", ">",
      "\n", "<", "head", ">", "\n", "<", "meta charset=\"UTF-8\"", ">", "\n", "<",
      "meta name=\"viewport\" content=\"width=device-width, initial-scale=1.0\"", ">",
      "\n", "<", "title", ">", "Template Error", "<", "/title", ">", "\n", "<", "style",
      ">", "\n", "body { font-family: monospace; margin: 20px; background: #f8f8f8; }",
      "\n",
      ".error { background: #ffebee; border: 1px solid #f44336; padding: 20px; border-radius: 4px; }",
      "\n", ".error h2 { color: #d32f2f; margin-top: 0; }", "\n",
      "pre { background: white; padding: 10px; border-radius: 2px; overflow-x: auto; }",
      "\n", ".stack { font-size: 12px; color: #666; }", "\n", "<", "/style", ">", "\n",
      "<", "/head", ">", "\n", "<", "body", ">", "\n", "<", "div class=\"error\"", ">",
      "\n", "<", "h2", ">", "Template Engine Error", "<", "/h2", ">", "\n", "<", "p", ">",
      "<", "strong", ">", "Template:", "<", "/strong", ">", "\n", "<", "code", ">">>
    \o PathText(templatePath)
    \o <<"<", "/code", ">", "<", "/p", ">", "\n", "<", "p", ">", "<", "strong", ">", "Error:",
      "<", "/strong", ">", "\n">>
    \o error.message
    \o <<"<", "/p", ">", "\n", "<", "details", ">", "\n", "<", "summary", ">", "Stack Trace", "<",
      "/summary", ">", "\n", "<", "pre class=\"stack\"", ">">>
    \o error.stack
    \o <<"<", "/pre", ">", "\n", "<", "/details", ">", "\n", "<", "p", ">", "<", "em", ">",
      "This error is only shown in development mode.", "<", "/em", ">", "<", "/p", ">",
      "\n", "<", "/div", ">", "\n", "<", "/body", ">", "\n", "<", "/html", ">", "\n">>

(***************************************************************************)
(* loadTemplate and resolveCustomElements.  The effects of a call are      *)
(* threaded through a record st: cache is templateCache, mode is           *)
(* process.env.NODE_ENV, read lists the paths given to readFile, warned    *)
(* the keys given to console.warn, logged the tags given to console.log,   *)
(* fragments the outcome of each nested loadTemplate call.                 *)
(***************************************************************************)
\* `${fullPath}:${JSON.stringify(Object.keys(context))}`
CacheKey(fullPath, context) == <<fullPath, Keys(context)>>

\* process.env.NODE_ENV === 'production'
cacheActive(mode) == mode = "production"

\* A mutation of cacheHit: the cache is never found to hold the key
cacheHit_never(cacheKey, st) == FALSE

\* process.env.NODE_ENV === 'production' && templateCache.has(cacheKey)
cacheHit(cacheKey, st) == cacheActive(st.mode) /\ cacheKey \in DOMAIN st.cache

\* The error readFile rejects with for a path that does not exist
ENOENT(fullPath) ==
    Error("Error", <<"ENOENT: no such file or directory, open '">>
                   \o PathText(fullPath) \o <<"'">>)

\* A mutation of loadCatch: the error page is returned in every mode
loadCatch_everyMode(templatePath, error, mode) ==
    [kind |-> "return", html |-> generateErrorTemplate(templatePath, error),
     error |-> NoError]

\* The catch block of loadTemplate
loadCatch(templatePath, error, mode) ==
    IF mode = "development"
    THEN [kind |-> "return", html |-> generateErrorTemplate(templatePath, error),
          error |-> NoError]
    ELSE [kind |-> "throw", html |-> <<>>, error |-> error]

\* The two replace calls of resolveCustomElements for one element
substituteElement(processedHTML, tagName, elementHTML) ==
    replace(replace(processedHTML, "selfClosing", tagName, elementHTML),
            "withContent", tagName, elementHTML)

\* What a call reports of its own evaluateTemplate step
NoEvaluation == [ran |-> FALSE, threw |-> FALSE, caught |-> NoError, template |-> <<>>,
                 safeContext |-> <<>>, warned |-> <<>>]

\* The number of nested loadTemplate calls after which a call is known never
\* to return: a chain longer than the number of files repeats a path, and the
\* repeated call meets the state the first one met.
DepthLimit == Cardinality(DOMAIN files) + 1

\* A mutation of stat: every path is taken to exist
stat_everyPath(fullTemplatePath) == TRUE

\* await stat(fullTemplatePath) resolves: the file exists
stat(fullTemplatePath) == fullTemplatePath \in DOMAIN files

RECURSIVE loadTemplate(_, _, _, _)
RECURSIVE loadTemplateFrom(_, _, _, _, _)
RECURSIVE ResolveFrom(_, _, _, _, _, _)

\* The for loop of resolveCustomElements from element k on.  Its catch block
\* takes every failure of stat and of loadTemplate, logs and goes on.
ResolveFrom(customElements, k, processedHTML, context, st, depth) ==
    IF k > Len(customElements)
    THEN [kind |-> "return", html |-> processedHTML, st |-> st]
    ELSE LET tagName      == customElements[k].tagName
             templatePath == componentPath(tagName)
             templateFile == join(templatesDir, templatePath)
         IN  IF ~stat(templateFile)
             THEN ResolveFrom(customElements, k + 1, processedHTML, context,
                              [st EXCEPT !.logged = Append(@, tagName)], depth)
             ELSE LET \* r is the outcome of the nested call, st1 the state after it
                      Loaded(r, st1) ==
                          IF r.kind = "diverges"
                          THEN [kind |-> "diverges", html |-> <<>>, st |-> r.st]
                          ELSE IF r.kind = "throw"
                          THEN ResolveFrom(customElements, k + 1, processedHTML, context,
                                           [st1 EXCEPT !.logged = Append(@, tagName)],
                                           depth)
                          ELSE ResolveFrom(customElements, k + 1,
                                           substituteElement(processedHTML, tagName, r.html),
                                           context, st1, depth)
                      Nested(r) ==
                          Loaded(r, [r.st EXCEPT !.fragments =
                                        Append(@, [tagName |-> tagName, depth |-> depth + 1,
                                                   kind |-> r.kind, html |-> r.html,
                                                   threw |-> r.evaluation.threw])])
                  IN  Nested(loadTemplate(templatePath, context, st, depth + 1))

resolveCustomElements(html, context, st, depth) ==
    ResolveFrom(findCustomElements(html), 1, html, context, st, depth)

\* What a call of loadTemplate ends with, and the state s it leaves
Outcome(kind, html, error, s, evaluation) ==
    [kind |-> kind, html |-> html, error |-> error, st |-> s, evaluation |-> evaluation]

\* loadTemplate from the point where readFile has resolved with templateContent,
\* with st1 the state that records the read
loadTemplateFrom(templatePath, context, templateContent, st1, depth) ==
    LET cacheKey == CacheKey(join(templatesDir, templatePath), context)
        \* catch (error) { ... }: c is what the catch block gives
        Caught(c, s, evaluation) == Outcome(c.kind, c.html, c.error, s, evaluation)
        \* after evaluateTemplate: ev is its result, st2 the state after it; the
        \* result is cached in production and returned
        Finish(ev, st2, evaluation) ==
            IF ev.kind = "throw"
            THEN Caught(loadCatch(templatePath, ev.error, st2.mode), st2, evaluation)
            ELSE Outcome("return", ev.html, NoError,
                         IF cacheActive(st2.mode)
                         THEN [st2 EXCEPT !.cache = (cacheKey :> ev.html) @@ @]
                         ELSE st2,
                         evaluation)
        Evaluate(rs, ev) ==
            Finish(ev,
                   [rs.st EXCEPT !.mode = ev.mode, !.warned = @ \o ev.warned],
                   [ran |-> TRUE, threw |-> ev.threw, caught |-> ev.caught,
                    template |-> rs.html,
                    safeContext |-> ev.safeContext, warned |-> ev.warned])
        \* after resolveCustomElements: rs is its result
        Resolved(rs) ==
            IF rs.kind = "diverges"
            THEN Outcome("diverges", <<>>, NoError, rs.st, NoEvaluation)
            ELSE Evaluate(rs, evaluateTemplate(rs.html, context, rs.st.mode))
    IN  Resolved(resolveCustomElements(templateContent, context, st1, depth))

\* What loadTemplate ends with when readFile rejects
readFileFailed(templatePath, fullPath, st1) ==
    LET Caught(c) == Outcome(c.kind, c.html, c.error, st1, NoEvaluation)
    IN  Caught(loadCatch(templatePath, ENOENT(fullPath), st1.mode))

loadTemplate(templatePath, context, st, depth) ==
    LET fullPath == join(templatesDir, templatePath)
        cacheKey == CacheKey(fullPath, context)
        \* readFile(fullPath), with st1 the state that records the read
        Read(st1) ==
            IF fullPath \notin DOMAIN files
            THEN readFileFailed(templatePath, fullPath, st1)
            ELSE loadTemplateFrom(templatePath, context, files[fullPath], st1, depth)
    IN  IF depth > DepthLimit
        THEN Outcome("diverges", <<>>, NoError, st, NoEvaluation)
        ELSE IF cacheHit(cacheKey, st)
        THEN Outcome("return", st.cache[cacheKey], NoError, st, NoEvaluation)
        ELSE Read([st EXCEPT !.read = Append(@, fullPath)])

(***************************************************************************)
(* The templates, contexts and modes of the model                          *)
(***************************************************************************)
\* The page the handler renders, and the fragments of <x> and <x-y>
MainPath == <<<<"main-test-runner.html">>>>

XPath == componentPath(<<"x">>)

TemplatePaths == {MainPath, XPath}

\* <p>${value}</p><x></x><X />
PageWithElement ==
    <<"<", "p", ">", "${value}", "<", "/", "p", ">",
      "<", "x", ">", "<", "/", "x", ">", "<", "X", " ", "/", ">">>

\* ${undefinedVariable}
UndefinedName == <<"${undefinedVariable}">>

\* ${process}
AmbientName == <<"${process}">>

\* ${env.NODE_ENV='development'}
EnvAssignment == <<"${env.NODE_ENV='development'}">>

\* ${env.NODE_ENV='production'}
ProductionAssignment == <<"${env.NODE_ENV='production'}">>

\* <p>hi</p>
Paragraph == <<"<", "p", ">", "h", "i", "<", "/", "p", ">">>

\* <p>$&</p>
DollarPattern == <<"<", "p", ">", "$", "&", "<", "/", "p", ">">>

\* ${env.NODE_ENV='development'}${undefinedVariable}
AssignThenFail == <<"${env.NODE_ENV='development'}", "${undefinedVariable}">>

TopTemplates == {PageWithElement, UndefinedName, AmbientName, EnvAssignment, AssignThenFail}

FragmentTemplates == {Paragraph, UndefinedName, DollarPattern}

Contents(path) == IF path = MainPath THEN TopTemplates ELSE FragmentTemplates

\* The contexts callers pass
EmptyContext == <<>>

ValueContext == <<Entry("value", Str(<<"w">>))>>

\* A context with a deny-listed key, function values under an ordinary and under
\* an allow-listed key, an object that is not plain, a string and a function
\* under the names of built-ins, and an ordinary string
MixedContext ==
    <<Entry("eval", Str(<<"w">>)), Entry("callback", CallerFunction),
      Entry("config", CallerFunction), Entry("cache", MapInstance),
      Entry("Math", Str(<<"w">>)), Entry("escape", CallerFunction),
      Entry("value", Str(<<"w">>))>>

\* The keys of MixedContext in another insertion order, and another value
ReorderedContext ==
    <<Entry("value", Str(<<"v">>)), Entry("eval", Str(<<"w">>)),
      Entry("callback", CallerFunction), Entry("config", CallerFunction),
      Entry("cache", MapInstance), Entry("Math", Str(<<"w">>)),
      Entry("escape", CallerFunction)>>

\* A context with a key that is no identifier
BadKeyContext == <<Entry("my-key", Str(<<"w">>)), Entry("value", Str(<<"w">>))>>

\* { testFiles, config, env: process.env } of generateTestRunnerHTML
HandlerContext ==
    <<Entry("testFiles", EmptyArray), Entry("config", PlainObject),
      Entry("env", ProcessEnv)>>

Contexts == {EmptyContext, ValueContext, MixedContext, BadKeyContext}

\* The values of process.env.NODE_ENV; "" stands for an unset variable, the
\* mode that is neither development nor production
Modes == {"development", "production", ""}

\* The number of loadTemplate calls, and of file changes, in one behaviour
MaxCalls == 2

MaxFileChanges == 2

(***************************************************************************)
(* The handler's results endpoints (handler/index.js).  A JSON value is a  *)
(* record; an object is a function from its keys to values.  A request     *)
(* body is a text: for JSON a sequence of tokens, for TAP a sequence of    *)
(* text runs, line feeds "\n" and the two characters "\\n" that the        *)
(* handler splits and joins with.                                          *)
(***************************************************************************)
JValue(type, n, text, items) == [type |-> type, n |-> n, text |-> text, items |-> items]

JNull == JValue("null", 0, <<>>, <<>>)

JNumber(n) == JValue("number", n, <<>>, <<>>)

\* The number a literal beyond the range of a double parses to
JInfinity == JValue("number", 0, <<"Infinity">>, <<>>)

JString(text) == JValue("string", 0, text, <<>>)

JArray(items) == JValue("array", 0, <<>>, items)

\* The value tokens of the request bodies and what JSON.parse makes of them
JSONValueOf ==
    "0" :> JNumber(0)
    @@ "3" :> JNumber(3)
    @@ "5" :> JNumber(5)
    @@ "1e999" :> JInfinity
    @@ "null" :> JNull
    @@ "\"completed\"" :> JString(<<"completed">>)
    @@ "\"ok 1\"" :> JString(<<"ok 1">>)
    @@ "[\"ok 1\",\"ok 2\"]" :> JArray(<<JString(<<"ok 1">>), JString(<<"ok 2">>)>>)

\* The key tokens and the keys they name
JSONKeyOf ==
    "\"status\"" :> "status"
    @@ "\"total\"" :> "total"
    @@ "\"passed\"" :> "passed"
    @@ "\"failed\"" :> "failed"
    @@ "\"files\"" :> "files"
    @@ "\"tapOutput\"" :> "tapOutput"
    @@ "\"timestamp\"" :> "timestamp"

\* The tokens between the braces are key : value pairs with commas between them
IsMemberList(inner) ==
    \/ inner = <<>>
    \/ /\ Len(inner) % 4 = 3
       /\ \A k \in 1..Len(inner) :
              IF k % 4 = 1 THEN inner[k] \in DOMAIN JSONKeyOf
              ELSE IF k % 4 = 2 THEN inner[k] = ":"
              ELSE IF k % 4 = 3 THEN inner[k] \in DOMAIN JSONValueOf
              ELSE inner[k] = ","

\* The object of a member list: a later member of the same key wins
RECURSIVE MembersFrom(_, _, _)
MembersFrom(inner, k, object) ==
    IF k > Len(inner) THEN object
    ELSE MembersFrom(inner, k + 4,
                     (JSONKeyOf[inner[k]] :> JSONValueOf[inner[k + 2]]) @@ object)

\* JSON.parse(text): ok with the value, for an object its members; or a
\* SyntaxError
JSONParse(text) ==
    IF Len(text) = 1 /\ text[1] \in DOMAIN JSONValueOf
    THEN [ok |-> TRUE, isObject |-> FALSE, value |-> JSONValueOf[text[1]], members |-> <<>>]
    ELSE IF /\ Len(text) >= 2
            /\ text[1] = "{"
            /\ text[Len(text)] = "}"
            /\ IsMemberList(SubSeq(text, 2, Len(text) - 1))
    THEN [ok |-> TRUE, isObject |-> TRUE, value |-> JNull,
          members |-> MembersFrom(SubSeq(text, 2, Len(text) - 1), 1, <<>>)]
    ELSE [ok |-> FALSE, isObject |-> FALSE, value |-> JNull, members |-> <<>>]

\* What a value is after JSON.stringify and JSON.parse, as the client of a GET
\* has it: a number that is not finite comes back as null
Revive(value) ==
    IF value.type = "number" /\ value.text = <<"Infinity">> THEN JNull
    ELSE IF value.type = "array"
    THEN JArray([k \in 1..Len(value.items) |->
                    IF /\ value.items[k].type = "number"
                       /\ value.items[k].text = <<"Infinity">>
                    THEN JNull ELSE value.items[k]])
    ELSE value

\* JSON.parse(JSON.stringify(object))
ReviveObject(object) == [key \in DOMAIN object |-> Revive(object[key])]

\* let testResults = { timestamp: null, status: 'pending', ... }
InitialResults ==
    "timestamp" :> JNull
    @@ "status" :> JString(<<"pending">>)
    @@ "total" :> JNumber(0)
    @@ "passed" :> JNumber(0)
    @@ "failed" :> JNumber(0)
    @@ "files" :> JArray(<<>>)
    @@ "tapOutput" :> JArray(<<>>)

\* new Date().toISOString() at the now-th request
TimeTexts == <<"T1", "T2", "T3", "T4", "T5", "T6">>

toISOString(now) == JString(<<TimeTexts[now]>>)

\* What a request is answered with, and the testResults it leaves
Answer(statusCode, json, text, results) ==
    [response |-> [statusCode |-> statusCode, json |-> json, text |-> text],
     testResults |-> results]

\* A mutation of postResultsJson: the timestamp is set before the body is parsed
postResultsJson_stampsFirst(body, results, now) ==
    LET parsed == JSONParse(IF body = <<>> THEN <<"{", "}">> ELSE body)
        stamped == ("timestamp" :> toISOString(now)) @@ results
    IN  IF ~parsed.ok
        THEN Answer(400, "error" :> JString(<<"Invalid JSON">>), <<>>, stamped)
        ELSE Answer(200,
                    "status" :> JString(<<"stored">>) @@ "timestamp" :> toISOString(now),
                    <<>>,
                    ("timestamp" :> toISOString(now)) @@ parsed.members @@ results)

\* POST /html-test/results.json: JSON.parse(req.body || '{}'), the spread of
\* testResults and of the body, and the timestamp; 400 when the parse throws
postResultsJson(body, results, now) ==
    LET parsed == JSONParse(IF body = <<>> THEN <<"{", "}">> ELSE body)
    IN  IF ~parsed.ok
        THEN Answer(400, "error" :> JString(<<"Invalid JSON">>), <<>>, results)
        ELSE Answer(200,
                    "status" :> JString(<<"stored">>) @@ "timestamp" :> toISOString(now),
                    <<>>,
                    ("timestamp" :> toISOString(now)) @@ parsed.members @@ results)

\* GET /html-test/results.json: JSON.stringify(testResults), as the client
\* parses it
getResultsJson(results) == Answer(200, ReviveObject(results), <<>>, results)

\* String.prototype.split(separator): the runs between the separators
RECURSIVE Split(_, _)
Split(text, separator) ==
    LET j == First({k \in 1..Len(text) : text[k] = separator})
    IN  IF j = 0 THEN <<text>>
        ELSE <<SubSeq(text, 1, j - 1)>> \o Split(SubSeq(text, j + 1, Len(text)), separator)

\* POST /html-test/results.tap: req.body ? req.body.split('\\n') : []
postResultsTap(body, results, now) ==
    LET lines == IF body = <<>> THEN <<>> ELSE Split(body, "\\n")
    IN  Answer(200, <<>>, <<"TAP results stored">>,
               ("timestamp" :> toISOString(now))
               @@ ("tapOutput" :> JArray([k \in 1..Len(lines) |-> JString(lines[k])]))
               @@ results)

\* String(item) as Array.prototype.join has it: null gives the empty string
JoinText(item) ==
    IF item.type = "string" THEN item.text
    ELSE IF item.type = "null" THEN <<>>
    ELSE IF item.text = <<"Infinity">> THEN <<"Infinity">>
    ELSE <<CHOOSE token \in DOMAIN JSONValueOf : JSONValueOf[token] = item>>

\* Array.prototype.join(separator)
RECURSIVE Join(_, _)
Join(items, separator) ==
    IF items = <<>> THEN <<>>
    ELSE IF Len(items) = 1 THEN JoinText(items[1])
    ELSE JoinText(items[1]) \o <<separator>> \o Join(Tail(items), separator)

\* What the catch block of the handler answers with
InternalServerError(results) == Answer(500, <<>>, <<"Internal server error">>, results)

\* GET /html-test/results.tap: testResults.tapOutput.length > 0 ?
\* testResults.tapOutput.join('\\n') : the text for no results.  Reading length
\* of null and calling join on a string throw a TypeError, which the catch block
\* of the handler answers.
getResultsTap(results) ==
    LET tapOutput == results["tapOutput"]
    IN  IF tapOutput.type = "null" THEN InternalServerError(results)
        ELSE IF tapOutput.type = "array" /\ Len(tapOutput.items) > 0
        THEN Answer(200, <<>>, Join(tapOutput.items, "\\n"), results)
        ELSE IF tapOutput.type = "string" /\ Len(tapOutput.text) > 0
        THEN InternalServerError(results)
        ELSE Answer(200, <<>>,
                    <<"TAP version 13", "\\n", "# No test results available yet">>,
                    results)

ResultsJsonPath == "/html-test/results.json"

ResultsTapPath == "/html-test/results.tap"

\* handler(req) on the two results paths, at the now-th request
handler(req, results, now) ==
    IF req.path = ResultsJsonPath
    THEN IF req.method = "POST"
         THEN postResultsJson(req.body, results, now)
         ELSE getResultsJson(results)
    ELSE IF req.method = "POST"
         THEN postResultsTap(req.body, results, now)
         ELSE getResultsTap(results)

\* What the client keeps of a POST to /html-test/results.json: whether the body
\* was a JSON object, and its members
NoPost == [valid |-> FALSE, members |-> <<>>]

(***************************************************************************)
(* The page: the TAPReporter of modules/tap-reporter.js and the            *)
(* test-output component that listens to its events on the document.  A    *)
(* line of TAP is a string.  d is the document as the reporter sees it: its *)
(* own fields and the component that listens.                              *)
(***************************************************************************)
\* new TAPReporter()
NewReporter == [output |-> <<>>, testCount |-> 0]

\* new TestOutput(): the constructor of the component
NewTestOutput ==
    [lines |-> <<>>,
     testResults |-> [total |-> 0, passed |-> 0, failed |-> 0, running |-> FALSE]]

\* TestOutput.handleTestStart
handleTestStart(out, detail) ==
    [lines |-> <<>>,
     testResults |-> [total |-> detail.totalTests, passed |-> 0, failed |-> 0,
                      running |-> TRUE]]

\* TestOutput.handleTapOutput
handleTapOutput(out, detail) == [out EXCEPT !.lines = Append(@, detail.line)]

\* TestOutput.handleTestPass
handleTestPass(out, detail) == [out EXCEPT !.testResults.passed = @ + 1]

\* TestOutput.handleTestFail
handleTestFail(out, detail) == [out EXCEPT !.testResults.failed = @ + 1]

\* TestOutput.handleTestFinish
handleTestFinish(out, detail) == [out EXCEPT !.testResults.running = FALSE]

\* TestOutput.clear
clearOutput(out) == NewTestOutput

\* document.dispatchEvent(new CustomEvent(eventName, { detail })): the listeners
\* that setupEventListeners added run before dispatchEvent returns
dispatchEvent(d, eventName, detail) ==
    [d EXCEPT !.testOutput =
        CASE eventName = "tap-start"  -> handleTestStart(@, detail)
          [] eventName = "tap-output" -> handleTapOutput(@, detail)
          [] eventName = "tap-pass"   -> handleTestPass(@, detail)
          [] eventName = "tap-fail"   -> handleTestFail(@, detail)
          [] eventName = "tap-finish" -> handleTestFinish(@, detail)
          [] OTHER -> @]

\* TAPReporter.writeOutput
writeOutput(d, line) ==
    dispatchEvent([d EXCEPT !.reporter.output = Append(@, line)],
                  "tap-output", [line |-> line])

\* TAPReporter.start
start(d, totalTests) ==
    LET counted == [d EXCEPT !.reporter.testCount = totalTests]
        tapVersion == "TAP version 13"
        plan == "1.." \o ToString(totalTests)
    IN  dispatchEvent(writeOutput(writeOutput(counted, tapVersion), plan),
                      "tap-start", [totalTests |-> totalTests])

\* Number.prototype.toFixed(2) of a duration given in thousandths of a
\* millisecond
toFixed2(duration) ==
    LET hundredths == (duration + 5) \div 10
        fraction == hundredths % 100
    IN  ToString(hundredths \div 100) \o "."
        \o (IF fraction < 10 THEN "0" ELSE "") \o ToString(fraction)

\* TAPReporter.pass, with the duration that both callers give
pass(d, testNumber, testName, duration) ==
    LET line == "ok " \o ToString(testNumber) \o " - " \o testName
        written ==
            writeOutput(
                writeOutput(
                    writeOutput(writeOutput(d, line), "  ---"),
                    "  duration_ms: " \o toFixed2(duration)),
                "  ...")
    IN  dispatchEvent(written, "tap-pass",
                      [testNumber |-> testNumber, testName |-> testName,
                       duration |-> duration])

\* The lines stackLines.forEach writes: error.stack.split('\n').slice(1, 4),
\* each trimmed.  A stack is kept as its lines without their indentation.
RECURSIVE writeStackLines(_, _)
writeStackLines(d, stackLines) ==
    IF stackLines = <<>> THEN d
    ELSE writeStackLines(writeOutput(d, "    " \o Head(stackLines)), Tail(stackLines))

\* Array.prototype.slice(1, 4)
Slice14(items) ==
    IF Len(items) < 2 THEN <<>>
    ELSE SubSeq(items, 2, IF Len(items) < 4 THEN Len(items) ELSE 4)

\* TAPReporter.fail.  error is what the test threw.  Reading error.message of
\* undefined or null throws a TypeError: d is the document at that moment.
fail(d, testNumber, testName, error) ==
    LET line == "not ok " \o ToString(testNumber) \o " - " \o testName
        begun == writeOutput(writeOutput(d, line), "  ---")
        Described(e) ==
            LET message == writeOutput(writeOutput(begun,
                               "  message: \"" \o e.message \o "\""),
                               "  severity: fail")
                stacked == IF e.stack # <<>>
                           THEN writeStackLines(writeOutput(message, "  stack: |"),
                                                Slice14(e.stack))
                           ELSE message
            IN  dispatchEvent(writeOutput(stacked, "  ..."), "tap-fail",
                              [testNumber |-> testNumber, testName |-> testName,
                               error |-> e.message])
    IN  IF error.type = "undefined"
        THEN [d |-> begun, threw |-> TRUE]
        ELSE [d |-> Described(error), threw |-> FALSE]

\* TAPReporter.finish
finish(d, passedTests, failedTests) ==
    LET totalTests == passedTests + failedTests
        summary == IF failedTests > 0
                   THEN "# FAIL " \o ToString(failedTests) \o "/" \o ToString(totalTests)
                   ELSE "# PASS " \o ToString(passedTests) \o "/" \o ToString(totalTests)
    IN  dispatchEvent(writeOutput(d, summary), "tap-finish",
                      [passedTests |-> passedTests, failedTests |-> failedTests,
                       totalTests |-> totalTests, success |-> failedTests = 0])

\* TAPReporter.clear
clearReporter(rep) == NewReporter


(***************************************************************************)
(* The test framework of modules/test-framework.js: TestSuite and          *)
(* TestFramework.  A registered test is its name and whether its function  *)
(* is an AsyncFunction.  What a test function does is its outcome: it      *)
(* returns after a duration, or it throws a value.                         *)
(***************************************************************************)
\* An assertion of browser-assertions.js that failed, and a promise rejected
\* without a reason
AssertionError ==
    [type |-> "Error", message |-> "Element not found",
     stack |-> <<"Error: Element not found", "at exists", "at test", "at run", "at runTests">>]

NoReason == [type |-> "undefined", message |-> "", stack |-> <<>>]

\* Durations in thousandths of a millisecond
Durations == {4, 12346}

Outcomes ==
    [type : {"returns"}, duration : Durations, error : {NoReason}]
    \cup [type : {"throws"}, duration : {4}, error : {AssertionError, NoReason}]

\* new TestSuite(), with the position of its run: at is "idle", or "awaiting"
\* while run waits for the AsyncFunction test number i; and new
\* TestFramework(): suites counts the entries of its list
NewSuite ==
    [tests |-> <<>>, totalTests |-> 0, passedTests |-> 0, failedTests |-> 0,
     currentTest |-> 0, suites |-> 0, at |-> "idle", i |-> 0]

\* TestSuite.test
test(s, name, isAsync) ==
    [s EXCEPT !.tests = Append(@, [name |-> name, isAsync |-> isAsync]),
              !.totalTests = @ + 1]

\* The document with the calls that were made of its reporter
Called(d, call) == [d EXCEPT !.calls = Append(@, call)]

\* What run and the document have come to: ended is "" while run waits
Ran(s, d, ended) == [suite |-> s, d |-> d, ended |-> ended]

\* TestSuite.run, the body of its loop after the test function of test
\* testNumber has ended with outcome: the try block goes on, or the catch block
\* runs.  threw says that reporter.fail threw out of the catch block.
settleTest(s, d, testNumber, outcome) ==
    LET name == s.tests[testNumber].name
        Failed(r) ==
            [suite |-> [s EXCEPT !.failedTests = @ + 1], d |-> r.d, threw |-> r.threw]
    IN  IF outcome.type = "returns"
        THEN [suite |-> [s EXCEPT !.passedTests = @ + 1],
              d |-> pass(Called(d, [op |-> "pass", testNumber |-> testNumber]),
                         testNumber, name, outcome.duration),
              threw |-> FALSE]
        ELSE Failed(fail(Called(d, [op |-> "fail", testNumber |-> testNumber]),
                         testNumber, name, outcome.error))

\* TestSuite.run from the iteration of test testNumber on, up to its next
\* await or to its end.  outcomes[k] is what the function of test k does when
\* it is called in this stretch.
RECURSIVE runFrom(_, _, _, _)
runFrom(s, d, testNumber, outcomes) ==
    LET Settled(r) ==
            IF r.threw THEN Ran([r.suite EXCEPT !.at = "idle"], r.d, "threw")
            ELSE runFrom(r.suite, r.d, testNumber + 1, outcomes)
    IN  IF testNumber > Len(s.tests)
        THEN Ran([s EXCEPT !.at = "idle"],
                 finish(Called(d, [op |-> "finish", passed |-> s.passedTests,
                                   failed |-> s.failedTests]),
                        s.passedTests, s.failedTests),
                 "returned")
        ELSE IF s.tests[testNumber].isAsync
        THEN Ran([s EXCEPT !.currentTest = testNumber, !.at = "awaiting",
                           !.i = testNumber], d, "")
        ELSE Settled(settleTest([s EXCEPT !.currentTest = testNumber], d, testNumber,
                                outcomes[testNumber]))

\* TestSuite.run up to its first await or to its end
run(s, d, outcomes) ==
    runFrom(s, start(Called(d, [op |-> "start", totalTests |-> s.totalTests]),
                     s.totalTests),
            1, outcomes)

\* TestFramework.runTests up to the first await of run or to its end
runTests(s, d, outcomes) == run([s EXCEPT !.suites = @ + 1], d, outcomes)

\* TestSuite.run when the function of the test it waits for has ended with
\* outcome
resumeRun(s, d, outcome, outcomes) ==
    LET Settled(r) ==
            IF r.threw THEN Ran([r.suite EXCEPT !.at = "idle"], r.d, "threw")
            ELSE runFrom(r.suite, r.d, s.i + 1, outcomes)
    IN  Settled(settleTest(s, d, s.i, outcome))


(***************************************************************************)
(* The TestRunner of lib/test-runner.js.  What fetch and the iframe give   *)
(* for a test file is an input: the file with its tests, or the file with  *)
(* an error and no test.                                                   *)
(***************************************************************************)
\* The testResults that the constructor and runAllTests start from
NoResults == [total |-> 0, passed |-> 0, failed |-> 0, files |-> <<>>]

\* A call of runAllTests before it is made
NoCall == [at |-> "idle", allTests |-> <<>>, i |-> 0, error |-> ""]

\* The callers of runAllTests: the click handler of setupUI and autoRun
RunnerCallers == {"click", "autoRun"}

\* new TestRunner(config), with the testFiles of its config and the calls of
\* runAllTests
NewRunner(testFiles) ==
    [testFiles |-> testFiles, isRunning |-> FALSE, testResults |-> NoResults,
     calls |-> [c \in RunnerCallers |-> NoCall]]

\* The test files that a page configures, those among them that start with
\* http:// or https://, and window.location.origin
TestFilePaths == {"/tests/form.test.html", "https://cdn.example.com/list.test.html"}

AbsolutePaths == {"https://cdn.example.com/list.test.html"}

Origin == "http://localhost:3333"

\* TestConfig.resolveTestUrl, without a remoteBaseUrl
resolveTestUrl(path) == IF path \in AbsolutePaths THEN path ELSE Origin \o path

\* TestConfig.resolveTestFiles
resolveTestFiles(rn) == [k \in 1..Len(rn.testFiles) |-> resolveTestUrl(rn.testFiles[k])]

\* TestRunner.addTestFile
addTestFile(rn, url) == [rn EXCEPT !.testFiles = Append(@, url)]

\* What loadTestFile resolves with: the catch block, or parseTestFile with
\* the tests of names
fileFailed(url) ==
    [url |-> url, error |-> "Failed to load test file: 404 Not Found", tests |-> <<>>]

fileParsed(url, names) ==
    [url |-> url, error |-> "",
     tests |-> [k \in 1..Len(names) |-> [name |-> names[k], url |-> url]]]

\* if (this.isRunning)
alreadyRunning(rn) == rn.isRunning

\* this.isRunning = true and the new testResults
beginRun(rn) == [rn EXCEPT !.isRunning = TRUE, !.testResults = NoResults]

finallyBlock_skipped(rn) == rn

\* The finally block of runAllTests
finallyBlock(rn) == [rn EXCEPT !.isRunning = FALSE]

\* The loop that collects the tests: allTests and testResults.files after it
RECURSIVE collectTests(_)
collectTests(testFiles) ==
    IF testFiles = <<>> THEN [allTests |-> <<>>, files |-> <<>>]
    ELSE LET file == Head(testFiles)
             rest == collectTests(Tail(testFiles))
         IN  IF file.error # "" THEN rest
             ELSE [allTests |-> file.tests \o rest.allTests,
                   files |-> <<file>> \o rest.files]

\* TestRunner.runTest when the function of the test has ended with outcome
runTest(rn, d, t, testNumber, outcome) ==
    LET name == t.name \o " (" \o t.url \o ")"
        Failed(r) ==
            [runner |-> [rn EXCEPT !.testResults.failed = @ + 1], d |-> r.d,
             threw |-> r.threw]
    IN  IF outcome.type = "returns"
        THEN [runner |-> [rn EXCEPT !.testResults.passed = @ + 1],
              d |-> pass(Called(d, [op |-> "pass", testNumber |-> testNumber]),
                         testNumber, name, outcome.duration),
              threw |-> FALSE]
        ELSE Failed(fail(Called(d, [op |-> "fail", testNumber |-> testNumber]),
                         testNumber, name, outcome.error))

\* The end of a call of runAllTests that threw error inside the try block
thrown(rn, c, error) ==
    [finallyBlock(rn) EXCEPT !.calls[c].at = "threw", !.calls[c].error = error]

\* runAllTests of caller c, from its call to its first await or to the error
\* it throws
runAllTests(rn, c) ==
    IF alreadyRunning(rn)
    THEN [rn EXCEPT !.calls[c] = [NoCall EXCEPT !.at = "threw",
                                                !.error = "Tests are already running"]]
    ELSE IF resolveTestFiles(rn) = <<>>
    THEN thrown([beginRun(rn) EXCEPT !.calls[c] = NoCall], c, "No test files configured")
    ELSE [beginRun(rn) EXCEPT !.calls[c] = [NoCall EXCEPT !.at = "loading"]]

\* runAllTests of caller c when Promise.all has resolved with testFiles: the
\* tests are collected, the reporter starts, and runTest is called for test 1
filesLoaded(rn, d, c, testFiles) ==
    LET collected == collectTests(testFiles)
        filed == [rn EXCEPT !.testResults.files = collected.files]
        total == Len(collected.allTests)
    IN  IF collected.allTests = <<>>
        THEN [runner |-> thrown(filed, c, "No tests found in configured files"), d |-> d]
        ELSE [runner |-> [filed EXCEPT !.testResults.total = total,
                                       !.calls[c].at = "awaiting",
                                       !.calls[c].allTests = collected.allTests,
                                       !.calls[c].i = 1],
              d |-> start(Called(d, [op |-> "start", totalTests |-> total]), total)]

\* runAllTests of caller c when runTest has settled for the test it waits
\* for: the next test, or finish and the result, or the error of runTest
testSettled(rn, d, c, outcome) ==
    LET call == rn.calls[c]
        Went(r) ==
            IF r.threw
            THEN [runner |-> thrown(r.runner, c, "Cannot read properties of undefined"),
                  d |-> r.d]
            ELSE IF call.i < Len(call.allTests)
            THEN [runner |-> [r.runner EXCEPT !.calls[c].i = @ + 1], d |-> r.d]
            ELSE [runner |-> [finallyBlock(r.runner) EXCEPT !.calls[c].at = "returned"],
                  d |-> finish(Called(r.d, [op |-> "finish",
                                            passed |-> r.runner.testResults.passed,
                                            failed |-> r.runner.testResults.failed]),
                               r.runner.testResults.passed,
                               r.runner.testResults.failed)]
    IN  Went(runTest(rn, d, call.allTests[call.i], call.i, outcome))

\* The page before anything has run
PageIdle ==
    /\ reporter = NewReporter
    /\ testOutput = NewTestOutput
    /\ suite = NewSuite
    /\ runner = NewRunner(<<>>)

HandlerIdle == testResults = InitialResults /\ posted = NoPost

OutsideEngineIdle == HandlerIdle /\ PageIdle

(***************************************************************************)
(* The state machine                                                       *)
(***************************************************************************)
Abs(path) == join(templatesDir, path)

Init ==
    /\ \E main \in TopTemplates, frag \in FragmentTemplates, hasFrag \in BOOLEAN :
           files = IF hasFrag
                   THEN (Abs(MainPath) :> main) @@ (Abs(XPath) :> frag)
                   ELSE (Abs(MainPath) :> main)
    /\ nodeEnv \in Modes
    /\ templateCache = <<>>
    /\ customElementCache = <<>>
    /\ last = [op |-> "start", calls |-> 0, fileChanges |-> 0]
    /\ recentCalls = <<>>
    /\ pending = <<>>
    /\ OutsideEngineIdle

\* A top-level call loadTemplate(templatePath, context) run to its end
Call(op, templatePath, context) ==
    LET st0 == [cache |-> templateCache, mode |-> nodeEnv,
                read |-> <<>>, warned |-> <<>>, logged |-> <<>>, fragments |-> <<>>]
        \* r is the outcome of the call
        Settle(r) ==
            /\ templateCache' = r.st.cache
            /\ nodeEnv' = r.st.mode
            /\ last' = [op           |-> op,
                        calls        |-> last.calls + 1,
                        fileChanges  |-> last.fileChanges,
                        templatePath |-> templatePath,
                        context      |-> context,
                        modeBefore   |-> nodeEnv,
                        cacheBefore  |-> templateCache,
                        kind         |-> r.kind,
                        html         |-> r.html,
                        error        |-> r.error,
                        read         |-> r.st.read,
                        warned       |-> r.st.warned,
                        logged       |-> r.st.logged,
                        fragments    |-> r.st.fragments,
                        evaluation   |-> r.evaluation]
    IN  /\ last.calls < MaxCalls
        /\ Settle(loadTemplate(templatePath, context, st0, 1))
        /\ UNCHANGED <<files, customElementCache, exceptEngine>>

LoadTemplate ==
    /\ \E context \in Contexts : Call("loadTemplate", MainPath, context)
    /\ UNCHANGED <<recentCalls, pending>>

\* handler -> generateTestRunnerHTML
GenerateTestRunnerHTML ==
    /\ Call("generateTestRunnerHTML", MainPath, HandlerContext)
    /\ UNCHANGED <<recentCalls, pending>>

\* process.env.NODE_ENV = mode, as the tests and the deployment set it
SetNodeEnv == \E mode \in Modes :
    /\ mode # nodeEnv
    /\ nodeEnv' = mode
    /\ last' = [op |-> "setNodeEnv", calls |-> last.calls, fileChanges |-> last.fileChanges]
    /\ UNCHANGED <<files, templateCache, customElementCache, recentCalls, pending,
                   exceptEngine>>

\* writeFile of a template
WriteFile == \E path \in TemplatePaths : \E content \in Contents(path) :
    /\ last.fileChanges < MaxFileChanges
    /\ files' = (Abs(path) :> content) @@ files
    /\ files' # files
    /\ last' = [op |-> "writeFile", calls |-> last.calls,
                fileChanges |-> last.fileChanges + 1]
    /\ UNCHANGED <<nodeEnv, templateCache, customElementCache, recentCalls, pending,
                   exceptEngine>>

\* rm of a template
RemoveFile == \E path \in TemplatePaths :
    /\ last.fileChanges < MaxFileChanges
    /\ Abs(path) \in DOMAIN files
    /\ files' = [p \in DOMAIN files \ {Abs(path)} |-> files[p]]
    /\ last' = [op |-> "rm", calls |-> last.calls, fileChanges |-> last.fileChanges + 1]
    /\ UNCHANGED <<nodeEnv, templateCache, customElementCache, recentCalls, pending,
                   exceptEngine>>

\* A mutation of ClearTemplateCache: the template cache is left as it is
ClearTemplateCache_keepsTemplates ==
    /\ customElementCache' = <<>>
    /\ last' = [op |-> "clearTemplateCache", calls |-> last.calls,
                fileChanges |-> last.fileChanges]
    /\ UNCHANGED <<files, nodeEnv, templateCache, recentCalls, pending, exceptEngine>>

\* clearTemplateCache()
ClearTemplateCache ==
    /\ templateCache' = <<>>
    /\ customElementCache' = <<>>
    /\ last' = [op |-> "clearTemplateCache", calls |-> last.calls,
                fileChanges |-> last.fileChanges]
    /\ recentCalls' = <<>>
    /\ UNCHANGED <<files, nodeEnv, pending, exceptEngine>>

\* getTemplateCacheStats()
GetTemplateCacheStats ==
    /\ last' = [op |-> "getTemplateCacheStats", calls |-> last.calls,
                fileChanges |-> last.fileChanges,
                stats |-> [templates      |-> Cardinality(DOMAIN templateCache),
                           customElements |-> Cardinality(DOMAIN customElementCache)]]
    /\ UNCHANGED <<files, nodeEnv, templateCache, customElementCache, recentCalls, pending,
                   exceptEngine>>

Next ==
    \/ LoadTemplate
    \/ GenerateTestRunnerHTML
    \/ SetNodeEnv
    \/ WriteFile
    \/ RemoveFile
    \/ ClearTemplateCache
    \/ GetTemplateCacheStats

Spec == Init /\ [][Next]_vars

(***************************************************************************)
(* The same program with a caller that repeats its calls and keeps what    *)
(* they returned, over the templates and contexts above and two more: a    *)
(* template that assigns 'production' and a context with the keys of       *)
(* another in a different order.                                           *)
(***************************************************************************)
RepeatTemplates == TopTemplates \cup {ProductionAssignment}

RepeatContexts == Contexts \cup {ReorderedContext}

InitRepeat ==
    /\ \E main \in RepeatTemplates, frag \in FragmentTemplates, hasFrag \in BOOLEAN :
           files = IF hasFrag
                   THEN (Abs(MainPath) :> main) @@ (Abs(XPath) :> frag)
                   ELSE (Abs(MainPath) :> main)
    /\ nodeEnv \in Modes
    /\ templateCache = <<>>
    /\ customElementCache = <<>>
    /\ last = [op |-> "start", calls |-> 0, fileChanges |-> 0]
    /\ recentCalls = <<>>
    /\ pending = <<>>
    /\ OutsideEngineIdle

\* What the caller keeps of a call that ended
CallSummary(call) ==
    [templatePath |-> call.templatePath, context |-> call.context,
     kind |-> call.kind, html |-> call.html]

\* The caller notes the call that just ended, in front of the one before it
Remember ==
    recentCalls' = IF ~cacheActive(nodeEnv) THEN <<>>
                   ELSE IF recentCalls = <<>> THEN <<CallSummary(last')>>
                   ELSE <<CallSummary(last'), recentCalls[1]>>

RepeatLoadTemplate ==
    /\ \E context \in RepeatContexts : Call("loadTemplate", MainPath, context)
    /\ Remember
    /\ UNCHANGED pending

RepeatGenerateTestRunnerHTML ==
    /\ Call("generateTestRunnerHTML", MainPath, HandlerContext)
    /\ Remember
    /\ UNCHANGED pending

NextRepeat ==
    \/ RepeatLoadTemplate
    \/ RepeatGenerateTestRunnerHTML
    \/ SetNodeEnv
    \/ WriteFile
    \/ RemoveFile
    \/ ClearTemplateCache
    \/ GetTemplateCacheStats

SpecRepeat == InitRepeat /\ [][NextRepeat]_vars

(***************************************************************************)
(* The same program with a page that uses <x> and, as components/x.html,   *)
(* one of the fragments above or a fragment that holds its own tag.        *)
(***************************************************************************)
\* <x></x>
SelfReference == <<"<", "x", ">", "<", "/", "x", ">">>

InitSelfReference ==
    /\ \E frag \in FragmentTemplates \cup {SelfReference} :
           files = (Abs(MainPath) :> PageWithElement) @@ (Abs(XPath) :> frag)
    /\ nodeEnv \in Modes
    /\ templateCache = <<>>
    /\ customElementCache = <<>>
    /\ last = [op |-> "start", calls |-> 0, fileChanges |-> 0]
    /\ recentCalls = <<>>
    /\ pending = <<>>
    /\ OutsideEngineIdle

NextSelfReference ==
    \/ LoadTemplate
    \/ SetNodeEnv
    \/ ClearTemplateCache
    \/ GetTemplateCacheStats

SpecSelfReference == InitSelfReference /\ [][NextSelfReference]_vars

(***************************************************************************)
(* The same program with a fragment that shows a value of the context, and *)
(* a caller whose value holds the text of an expression.                   *)
(***************************************************************************)
\* <x />
ElementPage == <<"<", "x", " ", "/", ">">>

\* ${value}
ValueFragment == <<"${value}">>

\* { value: '${env.NODE_ENV}' }
ExpressionValueContext == <<Entry("value", Str(<<"${env.NODE_ENV}">>))>>

InitFragmentValue ==
    /\ \E frag \in {Paragraph, ValueFragment} :
           files = (Abs(MainPath) :> ElementPage) @@ (Abs(XPath) :> frag)
    /\ nodeEnv \in Modes
    /\ templateCache = <<>>
    /\ customElementCache = <<>>
    /\ last = [op |-> "start", calls |-> 0, fileChanges |-> 0]
    /\ recentCalls = <<>>
    /\ pending = <<>>
    /\ OutsideEngineIdle

LoadTemplateWithValue ==
    /\ \E context \in {ValueContext, ExpressionValueContext} :
           Call("loadTemplate", MainPath, context)
    /\ UNCHANGED <<recentCalls, pending>>

NextFragmentValue ==
    \/ LoadTemplateWithValue
    \/ SetNodeEnv
    \/ ClearTemplateCache
    \/ GetTemplateCacheStats

SpecFragmentValue == InitFragmentValue /\ [][NextFragmentValue]_vars

(***************************************************************************)
(* The same program with a caller that chooses the template identity, and  *)
(* a file next to the template directory.                                  *)
(***************************************************************************)
\* ../secret.html
OutsidePath == <<<<"..">>, <<"secret.html">>>>

\* components/../../secret.html
NestedOutsidePath == <<<<"components">>, <<"..">>, <<"..">>, <<"secret.html">>>>

\* ./main-test-runner.html and ../templates/main-test-runner.html
DotPath == <<<<".">>, <<"main-test-runner.html">>>>

BackInsidePath == <<<<"..">>, <<"templates">>, <<"main-test-runner.html">>>>

CallerPaths == {MainPath, DotPath, BackInsidePath, OutsidePath, NestedOutsidePath}

InitPaths ==
    /\ \E main \in TopTemplates, secret \in FragmentTemplates :
           files = (Abs(MainPath) :> main) @@ (Abs(OutsidePath) :> secret)
    /\ nodeEnv \in Modes
    /\ templateCache = <<>>
    /\ customElementCache = <<>>
    /\ last = [op |-> "start", calls |-> 0, fileChanges |-> 0]
    /\ recentCalls = <<>>
    /\ pending = <<>>
    /\ OutsideEngineIdle

LoadTemplateByPath ==
    /\ \E templatePath \in CallerPaths, context \in {EmptyContext, ValueContext} :
           Call("loadTemplate", templatePath, context)
    /\ UNCHANGED <<recentCalls, pending>>

NextPaths ==
    \/ LoadTemplateByPath
    \/ SetNodeEnv
    \/ WriteFile
    \/ RemoveFile
    \/ ClearTemplateCache
    \/ GetTemplateCacheStats

SpecPaths == InitPaths /\ [][NextPaths]_vars

(***************************************************************************)
(* The same program with callers whose calls overlap.  A call runs to its  *)
(* await of readFile, is resumed when the read has resolved, and is        *)
(* resumed again to load its fragments, evaluate and store; other calls,   *)
(* the removal of files and clearTemplateCache happen in between.          *)
(***************************************************************************)
Callers == {"first", "second"}

OtherValueContext == <<Entry("value", Str(<<"v">>))>>

ConcurrentContexts == {ValueContext, OtherValueContext}

Idle == [at |-> "idle"]

\* The callers whose call waits: for readFile, or with the file read
InFlight == {c \in Callers : pending[c].at \in {"readFile", "resolve"}}

InitConcurrent ==
    /\ \E main \in TopTemplates, frag \in FragmentTemplates, hasFrag \in BOOLEAN :
           files = IF hasFrag
                   THEN (Abs(MainPath) :> main) @@ (Abs(XPath) :> frag)
                   ELSE (Abs(MainPath) :> main)
    /\ nodeEnv \in Modes
    /\ templateCache = <<>>
    /\ customElementCache = <<>>
    /\ last = [op |-> "start", calls |-> 0, fileChanges |-> 0]
    /\ recentCalls = <<>>
    /\ pending = [c \in Callers |-> Idle]
    /\ OutsideEngineIdle

\* loadTemplate up to its first await: the key, the test of the cache, and
\* either the cached string or the start of readFile
BeginLoadTemplate == \E c \in Callers, context \in ConcurrentContexts :
    LET cacheKey == CacheKey(join(templatesDir, MainPath), context)
        hit      == cacheActive(nodeEnv) /\ cacheKey \in DOMAIN templateCache
        call     == [at           |-> IF hit THEN "done" ELSE "readFile",
                     templatePath |-> MainPath,
                     context      |-> context,
                     modeBefore   |-> nodeEnv,
                     modeAfter    |-> nodeEnv,
                     during       |-> InFlight \ {c},
                     stored       |-> FALSE,
                     templateContent   |-> <<>>,
                     clearedAfterRead  |-> FALSE,
                     kind         |-> IF hit THEN "return" ELSE "",
                     html         |-> IF hit THEN templateCache[cacheKey] ELSE <<>>]
    IN  /\ c \notin InFlight
        /\ last.calls < MaxCalls
        /\ pending' = [d \in Callers |->
                          IF d = c THEN call
                          ELSE IF d \in InFlight
                          THEN [pending[d] EXCEPT !.during = @ \cup {c}]
                          ELSE IF pending[d].at = "done"
                          THEN [pending[d] EXCEPT !.during = @ \ {c}]
                          ELSE pending[d]]
        /\ last' = [op |-> "beginLoadTemplate", calls |-> last.calls + 1,
                    fileChanges |-> last.fileChanges]
        /\ UNCHANGED <<files, nodeEnv, templateCache, customElementCache, recentCalls,
                       exceptEngine>>

\* readFile settles for a call that waits for it: the call holds the content,
\* or ends in its catch block when the file does not exist
ReadFileSettles == \E c \in Callers :
    LET fullPath == join(templatesDir, pending[c].templatePath)
        st1 == [cache |-> templateCache, mode |-> nodeEnv, read |-> <<fullPath>>,
                warned |-> <<>>, logged |-> <<>>, fragments |-> <<>>]
        \* r is what the call ends with when readFile rejects
        Rejected(r) ==
            [pending[c] EXCEPT !.at = "done", !.kind = r.kind, !.html = r.html]
    IN  /\ pending[c].at = "readFile"
        /\ pending' = [pending EXCEPT ![c] =
                          IF fullPath \notin DOMAIN files
                          THEN Rejected(readFileFailed(pending[c].templatePath, fullPath, st1))
                          ELSE [@ EXCEPT !.at = "resolve",
                                         !.templateContent = files[fullPath]]]
        /\ last' = [op |-> "readFile", calls |-> last.calls,
                    fileChanges |-> last.fileChanges]
        /\ UNCHANGED <<files, nodeEnv, templateCache, customElementCache, recentCalls,
                       exceptEngine>>

\* The rest of a call that holds the content of its file: the fragments, the
\* evaluation and the cache write, on the cache and the mode as they are now
CompleteLoadTemplate == \E c \in Callers :
    LET st1 == [cache |-> templateCache, mode |-> nodeEnv,
                read |-> <<join(templatesDir, pending[c].templatePath)>>,
                warned |-> <<>>, logged |-> <<>>, fragments |-> <<>>]
        \* r is the outcome of the call
        Settle(r) ==
            /\ templateCache' = r.st.cache
            /\ nodeEnv' = r.st.mode
            /\ pending' = [pending EXCEPT ![c] =
                               [@ EXCEPT !.at = "done",
                                         !.modeAfter = r.st.mode,
                                         !.stored = r.kind = "return"
                                                    /\ cacheActive(r.st.mode),
                                         !.kind = r.kind,
                                         !.html = r.html]]
    IN  /\ pending[c].at = "resolve"
        /\ Settle(loadTemplateFrom(pending[c].templatePath, pending[c].context,
                                   pending[c].templateContent, st1, 1))
        /\ last' = [op |-> "completeLoadTemplate", calls |-> last.calls,
                    fileChanges |-> last.fileChanges]
        /\ UNCHANGED <<files, customElementCache, recentCalls, exceptEngine>>

\* clearTemplateCache() while calls are in flight; the calls that hold the
\* content of their file are marked
ClearTemplateCacheMeanwhile ==
    /\ templateCache' = <<>>
    /\ customElementCache' = <<>>
    /\ pending' = [c \in Callers |->
                      IF pending[c].at = "resolve"
                      THEN [pending[c] EXCEPT !.clearedAfterRead = TRUE]
                      ELSE pending[c]]
    /\ last' = [op |-> "clearTemplateCache", calls |-> last.calls,
                fileChanges |-> last.fileChanges]
    /\ UNCHANGED <<files, nodeEnv, recentCalls, exceptEngine>>

NextConcurrent ==
    \/ BeginLoadTemplate
    \/ ReadFileSettles
    \/ CompleteLoadTemplate
    \/ RemoveFile
    \/ ClearTemplateCacheMeanwhile

SpecConcurrent == InitConcurrent /\ [][NextConcurrent]_vars

(***************************************************************************)
(* findCustomElements on its own: a caller hands it markup put together    *)
(* from a few pieces and keeps what it returns.                            *)
(***************************************************************************)
\* <x>, <X />, <x-y>, <p>, <P a>, <p-x>, </x>, <y with no > of its own, text
Pieces == {
    <<"<", "x", ">">>,
    <<"<", "X", " ", "/", ">">>,
    <<"<", "x", "-", "y", ">">>,
    <<"<", "p", ">">>,
    <<"<", "P", " ", "a", ">">>,
    <<"<", "p", "-", "x", ">">>,
    <<"<", "/", "x", ">">>,
    <<"<", "y">>,
    <<"t">>
    }

MaxPieces == 4

Markups == {Flatten(ps) : ps \in UNION {[1..n -> Pieces] : n \in 0..MaxPieces}}

InitFind ==
    /\ files = <<>>
    /\ nodeEnv = ""
    /\ templateCache = <<>>
    /\ customElementCache = <<>>
    /\ last \in {[op |-> "markup", html |-> html] : html \in Markups}
    /\ recentCalls = <<>>
    /\ pending = <<>>
    /\ OutsideEngineIdle

FindCustomElements ==
    /\ last.op = "markup"
    /\ last' = [op |-> "findCustomElements", html |-> last.html,
                customElements |-> findCustomElements(last.html)]
    /\ UNCHANGED <<files, nodeEnv, templateCache, customElementCache, recentCalls, pending,
                   exceptEngine>>

NextFind == FindCustomElements

SpecFind == InitFind /\ [][NextFind]_vars

(***************************************************************************)
(* The escape function on its own: a template hands it a string and keeps  *)
(* what it returns.                                                        *)
(***************************************************************************)
EscapeAlphabet == {"&", "<", ">", "\"", "'", "a", ";"}

MaxLen == 4

\* <script>alert(1)</script>
ScriptAlert ==
    <<"<", "s", "c", "r", "i", "p", "t", ">", "a", "l", "e", "r", "t", "(", "1", ")",
      "<", "/", "s", "c", "r", "i", "p", "t", ">">>

EscapeInputs == UNION {[1..n -> EscapeAlphabet] : n \in 0..MaxLen} \cup {ScriptAlert}

InitEscape ==
    /\ files = <<>>
    /\ nodeEnv = ""
    /\ templateCache = <<>>
    /\ customElementCache = <<>>
    /\ last \in {[op |-> "string", str |-> str] : str \in EscapeInputs}
    /\ recentCalls = <<>>
    /\ pending = <<>>
    /\ OutsideEngineIdle

Escape ==
    /\ last.op = "string"
    /\ last' = [op |-> "escape", str |-> last.str, result |-> escape(last.str)]
    /\ UNCHANGED <<files, nodeEnv, templateCache, customElementCache, recentCalls, pending,
                   exceptEngine>>

NextEscape == Escape

SpecEscape == InitEscape /\ [][NextEscape]_vars

(***************************************************************************)
(* The handler's results endpoints with a client that posts and gets.      *)
(***************************************************************************)
\* {"total":5,"passed":5}
CountsBody == <<"{", "\"total\"", ":", "5", ",", "\"passed\"", ":", "5", "}">>

\* {"status":"completed","total":3,"tapOutput":["ok 1","ok 2"]}, as the page
\* posts its results
PluginBody ==
    <<"{", "\"status\"", ":", "\"completed\"", ",", "\"total\"", ":", "3", ",",
      "\"tapOutput\"", ":", "[\"ok 1\",\"ok 2\"]", "}">>

\* {"tapOutput":null}
NullTapBody == <<"{", "\"tapOutput\"", ":", "null", "}">>

\* {"total":1e999}
OverflowBody == <<"{", "\"total\"", ":", "1e999", "}">>

\* null
NullBody == <<"null">>

\* invalid json {   and   {"total":
InvalidBody == <<"invalid json ", "{">>

TruncatedBody == <<"{", "\"total\"", ":">>

\* The empty string: req.body || '{}' and req.body ? ... : []
EmptyBody == <<>>

JsonBodies ==
    {CountsBody, PluginBody, NullTapBody, OverflowBody, NullBody, InvalidBody,
     TruncatedBody, EmptyBody}

\* TAP version 13, 1..2, ok 1, ok 2 on lines of their own
TapLines == <<"TAP version 13", "\n", "1..2", "\n", "ok 1", "\n", "ok 2">>

\* this.results.tapOutput.join('\\n') of the page
TapJoined == <<"not ok 1", "\\n", "ok 2">>

TapBodies == {TapLines, TapJoined, EmptyBody}

\* The number of requests in one behaviour
MaxRequests == 4

EngineIdle ==
    /\ files = <<>>
    /\ nodeEnv = ""
    /\ templateCache = <<>>
    /\ customElementCache = <<>>
    /\ recentCalls = <<>>
    /\ pending = <<>>

InitResults ==
    /\ EngineIdle
    /\ PageIdle
    /\ testResults = InitialResults
    /\ posted = NoPost
    /\ last = [op |-> "start", requests |-> 0]

\* The request req is handled; a is what the handler answers and leaves
Handle(req) ==
    LET Settle(a) ==
            /\ testResults' = a.testResults
            /\ last' = [op |-> "handler", requests |-> last.requests + 1, req |-> req,
                        response |-> a.response, resultsBefore |-> testResults]
    IN  /\ last.requests < MaxRequests
        /\ Settle(handler(req, testResults, last.requests + 1))
        /\ UNCHANGED <<engineVars, pageVars>>

PostResultsJson == \E body \in JsonBodies :
    /\ Handle([path |-> ResultsJsonPath, method |-> "POST", body |-> body])
    /\ posted' = IF JSONParse(body).isObject
                 THEN [valid |-> TRUE, members |-> JSONParse(body).members]
                 ELSE NoPost

GetResultsJson ==
    /\ Handle([path |-> ResultsJsonPath, method |-> "GET", body |-> EmptyBody])
    /\ UNCHANGED posted

PostResultsTap == \E body \in TapBodies :
    /\ Handle([path |-> ResultsTapPath, method |-> "POST", body |-> body])
    /\ UNCHANGED posted

GetResultsTap ==
    /\ Handle([path |-> ResultsTapPath, method |-> "GET", body |-> EmptyBody])
    /\ UNCHANGED posted

NextResults ==
    \/ PostResultsJson
    \/ GetResultsJson
    \/ PostResultsTap
    \/ GetResultsTap

SpecResults == InitResults /\ [][NextResults]_vars

(***************************************************************************)
(* The page of js/main.js: tests are registered while the module runs, the *)
(* tests run when the page has loaded and at each click on Run Tests, and   *)
(* Clear Output clears the component.  The button is disabled while a run   *)
(* waits for a test.                                                       *)
(***************************************************************************)
TestNames == {"should find test paragraph", "async test example"}

\* The number of tests that the page registers, and of runs in one behaviour
MaxTests == 2

MaxRuns == 2

\* The document as a reporter sees it: calls are the calls of the reporter that
\* the run has made so far
Document == [reporter |-> reporter, testOutput |-> testOutput, calls |-> last.calls]

InitFramework ==
    /\ EngineIdle
    /\ HandlerIdle
    /\ PageIdle
    /\ last = [op |-> "page", runs |-> 0, calls |-> <<>>, ended |-> "",
               cleared |-> FALSE]

\* test(name, testFunction) of the module
Test == \E name \in TestNames, isAsync \in BOOLEAN :
    /\ last.runs = 0
    /\ Len(suite.tests) < MaxTests
    /\ suite' = test(suite, name, isAsync)
    /\ UNCHANGED <<engineVars, handlerVars, reporter, testOutput, runner, last>>

\* The run has come to r
SuiteBecomes(r, runs, cleared) ==
    /\ reporter' = r.d.reporter
    /\ testOutput' = r.d.testOutput
    /\ suite' = r.suite
    /\ last' = [op |-> "page", runs |-> runs, calls |-> r.d.calls, ended |-> r.ended,
                cleared |-> cleared]
    /\ UNCHANGED <<engineVars, handlerVars, runner>>

\* runTestsWithButton: the page has loaded, or Run Tests is clicked while it is
\* enabled
RunTestsWithButton == \E outcomes \in [1..Len(suite.tests) -> Outcomes] :
    /\ suite.at = "idle"
    /\ last.runs < MaxRuns
    /\ SuiteBecomes(runTests(suite, [Document EXCEPT !.calls = <<>>], outcomes),
                    last.runs + 1, FALSE)

\* The AsyncFunction test that run waits for ends, and run goes on
TestFunctionSettles ==
    \E outcome \in Outcomes, outcomes \in [1..Len(suite.tests) -> Outcomes] :
        /\ suite.at = "awaiting"
        /\ SuiteBecomes(resumeRun(suite, Document, outcome, outcomes), last.runs,
                        last.cleared)

\* The click on Clear Output
ClearOutput ==
    /\ testOutput # NewTestOutput
    /\ testOutput' = clearOutput(testOutput)
    /\ last' = [last EXCEPT !.cleared = TRUE]
    /\ UNCHANGED <<engineVars, handlerVars, reporter, suite, runner>>

NextFramework ==
    \/ Test
    \/ RunTestsWithButton
    \/ TestFunctionSettles
    \/ ClearOutput

SpecFramework == InitFramework /\ [][NextFramework]_vars

(***************************************************************************)
(* A page with a TestRunner: test files are added to its config, callers   *)
(* call runAllTests, the files load, the tests end one after the other,    *)
(* and Clear Output clears the reporter and the component.                 *)
(***************************************************************************)
\* The number of test files that the page adds to the config
MaxFiles == 2

\* The test names that a test file registers
FileTestNames == {<<>>, <<"renders">>}

\* What the function of a test of a test file does
RunnerOutcomes == {outcome \in Outcomes : outcome.duration = 4}

\* What loading the file at url gives
LoadedFiles(url) == {fileFailed(url)} \cup {fileParsed(url, names) : names \in FileTestNames}

\* The calls of runAllTests that have begun a run and not ended
ActiveCalls == {c \in RunnerCallers : runner.calls[c].at \in {"loading", "awaiting"}}

\* What is kept of the latest step for the page with the runner: the calls of
\* runAllTests made, the caller of the latest run and of the latest call, the
\* files as they loaded and the calls of the reporter in that run, and
\* testResults and the active calls before the step
InitRunner ==
    /\ EngineIdle
    /\ HandlerIdle
    /\ PageIdle
    /\ last = [op |-> "runner", runs |-> 0, event |-> "", caller |-> "", runCaller |-> "",
               loaded |-> <<>>, calls |-> <<>>, before |-> NoResults,
               activeBefore |-> {}]

AddTestFile == \E url \in TestFilePaths :
    /\ last.runs = 0
    /\ Len(runner.testFiles) < MaxFiles
    /\ runner' = addTestFile(runner, url)
    /\ UNCHANGED <<engineVars, handlerVars, reporter, testOutput, suite, last>>

\* The step of the runner that took it and the document to r
RunnerBecomes(r, event, c, loaded) ==
    /\ runner' = r.runner
    /\ reporter' = r.d.reporter
    /\ testOutput' = r.d.testOutput
    /\ last' = [last EXCEPT !.event = event, !.caller = c, !.calls = r.d.calls,
                            !.loaded = loaded, !.before = runner.testResults,
                            !.activeBefore = ActiveCalls]
    /\ UNCHANGED <<engineVars, handlerVars, suite>>

\* A caller calls runAllTests: autoRun when the page has loaded, and the click
\* handler at the click on Run Tests
RunAllTests == \E c \in RunnerCallers :
    /\ runner.calls[c].at = "idle"
    /\ runner' = runAllTests(runner, c)
    /\ last' = IF alreadyRunning(runner)
               THEN [last EXCEPT !.runs = @ + 1, !.event = "rejected", !.caller = c,
                                 !.before = runner.testResults,
                                 !.activeBefore = ActiveCalls]
               ELSE [last EXCEPT !.runs = @ + 1, !.event = "began", !.caller = c,
                                 !.runCaller = c, !.loaded = <<>>, !.calls = <<>>,
                                 !.before = runner.testResults,
                                 !.activeBefore = ActiveCalls]
    /\ UNCHANGED <<engineVars, handlerVars, reporter, testOutput, suite>>

\* Promise.all resolves with the test files as they loaded
FilesLoaded == \E c \in RunnerCallers :
    /\ runner.calls[c].at = "loading"
    /\ \E testFiles \in [1..Len(runner.testFiles) ->
                            UNION {LoadedFiles(url) : url \in {resolveTestUrl(path) :
                                                               path \in TestFilePaths}}] :
        /\ \A k \in 1..Len(runner.testFiles) :
               testFiles[k].url = resolveTestFiles(runner)[k]
        /\ RunnerBecomes(filesLoaded(runner, Document, c, testFiles), "loaded", c,
                         testFiles)

\* The test that runAllTests waits for ends
TestSettles == \E c \in RunnerCallers, outcome \in RunnerOutcomes :
    /\ runner.calls[c].at = "awaiting"
    /\ RunnerBecomes(testSettled(runner, Document, c, outcome), "settled", c,
                     last.loaded)

\* The click on Clear Output that setupUI listens to
ClearClicked ==
    /\ reporter # NewReporter \/ testOutput # NewTestOutput
    /\ reporter' = clearReporter(reporter)
    /\ testOutput' = clearOutput(testOutput)
    /\ last' = [last EXCEPT !.event = "cleared", !.caller = "",
                            !.before = runner.testResults,
                            !.activeBefore = ActiveCalls]
    /\ UNCHANGED <<engineVars, handlerVars, suite, runner>>

NextRunner ==
    \/ AddTestFile
    \/ RunAllTests
    \/ FilesLoaded
    \/ TestSettles
    \/ ClearClicked

SpecRunner == InitRunner /\ [][NextRunner]_vars



(***************************************************************************)
(* The claims                                                              *)
(***************************************************************************)
IsCall == last.op \in {"loadTemplate", "generateTestRunnerHTML"}

\* The latest call reached its own evaluateTemplate step
Evaluated == IsCall /\ last.evaluation.ran

\* The identifiers an expression text takes from its scope
FreeNames(e) ==
    {ExprSource[e].path[1]}
    \cup (IF ExprSource[e].op = "call" THEN {ExprSource[e].arg} ELSE {})

\* Every identifier of every expression of the template is a key of safeContext,
\* and every key can be bound
Resolvable(template, safeContext) ==
    /\ \A k \in 1..Len(template) :
           template[k] \in ExprTexts => FreeNames(template[k]) \subseteq DOMAIN safeContext
    /\ \A key \in DOMAIN safeContext : key \notin InvalidBindingNames

TimesWarned(key, warned) == Cardinality({k \in 1..Len(warned) : warned[k] = key})

\* The fragments that the latest call loaded for the elements of its own template
OwnFragments ==
    {last.fragments[k] : k \in {j \in 1..Len(last.fragments) : last.fragments[j].depth = 2}}

\* "<" followed by the tag name occurs in html
HasTag(html, tagName) ==
    \E i \in 1..Len(html) : html[i] = "<" /\ MatchesAt(html, i + 1, tagName)

\* C1 (as claimed): when the evaluated template holds an expression with an
\* identifier that is no key of the safe context, the evaluation fails.
C1_OnlyContextNamesResolve ==
    Evaluated =>
        \A k \in 1..Len(last.evaluation.template) :
            LET e == last.evaluation.template[k]
            IN  (/\ e \in ExprTexts
                 /\ ~(FreeNames(e) \subseteq DOMAIN last.evaluation.safeContext))
                => last.evaluation.threw

C2_DenyList == {"eval", "Function", "constructor", "__proto__", "prototype"}

C2_AllowList == {"env", "testFiles", "config", "testFile", "requestPath", "requestMethod"}

\* What C2 says of an entry that is to be excluded: the key is not bound to the
\* caller's value and console.warn was called once for it
C2_Excluded(entry) ==
    /\ \/ entry.key \notin DOMAIN last.evaluation.safeContext
       \/ last.evaluation.safeContext[entry.key] # entry.value
    /\ TimesWarned(entry.key, last.evaluation.warned) = 1

\* What C2 says of the rest: the utilities of the engine and the caller's
\* strings under ordinary keys are bound, and a template that uses only bound
\* names evaluates without an error
C2_RestAvailable ==
    /\ \A name \in {"escape", "JSON", "Math", "env"} :
           name \in DOMAIN last.evaluation.safeContext
    /\ \A k \in 1..Len(last.context) :
           (/\ last.context[k].value.type = "string"
            /\ last.context[k].key \notin C2_DenyList)
           => /\ last.context[k].key \in DOMAIN last.evaluation.safeContext
              /\ last.evaluation.safeContext[last.context[k].key] = last.context[k].value
    /\ Resolvable(last.evaluation.template, last.evaluation.safeContext)
           => ~last.evaluation.threw

C3_BuiltinNames ==
    {"escape", "encodeURIComponent", "decodeURIComponent", "parseInt", "parseFloat",
     "Math", "Date", "JSON", "env"}

\* The value is the one the engine itself puts under the name
C3_EngineOwn(name, value) ==
    IF name = "env" THEN value.id = "snapshot" ELSE value.id = "engine." \o name

C3_CallerEntries(name) ==
    {last.context[k] : k \in {j \in 1..Len(last.context) : last.context[j].key = name}}

C4_EnvironmentUnchanged == IsCall => nodeEnv = last.modeBefore

\* The latest call named a template file that does not exist
C5_FileMissing == IsCall /\ Abs(last.templatePath) \notin DOMAIN files

\* C5 (as claimed): a call for a missing template file fails, in every mode.
C5_MissingTemplateAlwaysFails == C5_FileMissing => last.kind = "throw"

\* C5 (amended): a call for a missing template file fails in every mode other
\* than development, unless production caching answers it from an entry stored
\* earlier; in development it returns the error page, which names the identity.
C5_MissingTemplateFailsOutsideDevelopment ==
    C5_FileMissing =>
        IF /\ last.modeBefore = "production"
           /\ CacheKey(Abs(last.templatePath), last.context) \in DOMAIN last.cacheBefore
        THEN /\ last.kind = "return"
             /\ last.html = last.cacheBefore[CacheKey(Abs(last.templatePath), last.context)]
        ELSE IF last.modeBefore = "development"
        THEN /\ last.kind = "return"
             /\ Includes(last.html, <<"Template Engine Error">>)
             /\ Includes(last.html, PathText(last.templatePath))
        ELSE /\ last.kind = "throw"
             /\ Includes(last.error.message, <<"ENOENT: no such file or directory, open '">>)

\* C5 witness: a call for a missing file failed outside development
C5_Witness ==
    /\ C5_FileMissing
    /\ last.modeBefore # "development"
    /\ last.kind = "throw"
    /\ last.read = <<Abs(last.templatePath)>>

C7_UndefinedNameInDevelopment ==
    /\ Evaluated
    /\ last.modeBefore = "development"
    /\ nodeEnv = "development"
    /\ last.evaluation.threw
    /\ last.evaluation.caught.name = "ReferenceError"

C8_FragmentFailureContained ==
    (/\ Evaluated
     /\ last.modeBefore = "development"
     /\ nodeEnv = "development"
     /\ Resolvable(files[Abs(last.templatePath)], last.evaluation.safeContext)
     /\ \E f \in OwnFragments : f.threw)
    => /\ last.kind = "return"
       /\ ~last.evaluation.threw
       /\ \A f \in OwnFragments : f.threw => Includes(last.html, f.html)

\* C9 (as claimed): outside development mode, when the load of an existing
\* fragment file fails, the top-level call fails.
C9_FragmentFailureSurfaces ==
    (/\ IsCall
     /\ last.modeBefore # "development"
     /\ nodeEnv # "development"
     /\ \E f \in OwnFragments : f.kind = "throw")
    => last.kind = "throw"

\* Each "<tagName" of html starts an element in self-closing or open/close form
C10_WellFormedUses(html, tagName) ==
    \A i \in 1..Len(html) :
        (html[i] = "<" /\ MatchesAt(html, i + 1, tagName))
        => \/ MatchSelfClosing(html, i, tagName).end # 0
           \/ MatchWithContent(html, i, tagName).end # 0

\* C10 (as claimed): when the fragment of an element was loaded and the call
\* returned the evaluated template, the output holds the markup of the fragment
\* and no "<tag" of the element.
C10_EveryOccurrenceReplaced ==
    (/\ Evaluated
     /\ last.kind = "return"
     /\ ~last.evaluation.threw)
    => \A f \in OwnFragments :
           (/\ f.kind = "return"
            /\ C10_WellFormedUses(files[Abs(last.templatePath)], f.tagName))
           => /\ Includes(last.html, f.html)
              /\ ~HasTag(last.html, f.tagName)

\* The indexes of html where "<tagName" stands
C11_Uses(html, tagName) ==
    {i \in 1..Len(html) : html[i] = "<" /\ MatchesAt(html, i + 1, tagName)}

\* The text of the element use of tagName that starts at index i of html
C11_UseText(html, i, tagName) ==
    IF MatchSelfClosing(html, i, tagName).end # 0
    THEN SubSeq(html, i, MatchSelfClosing(html, i, tagName).end)
    ELSE SubSeq(html, i, MatchWithContent(html, i, tagName).end)

\* The custom elements of the template of the latest call that have no
\* fragment file
C11_WithoutFragment ==
    {e \in {findCustomElements(files[Abs(last.templatePath)])[k] :
                k \in 1..Len(findCustomElements(files[Abs(last.templatePath)]))} :
        join(templatesDir, componentPath(e.tagName)) \notin DOMAIN files}

C12_RepeatedCall ==
    /\ IsCall
    /\ last.modeBefore = "production"
    /\ Len(recentCalls) = 2
    /\ recentCalls[2].kind = "return"
    /\ recentCalls[2].templatePath = last.templatePath
    /\ recentCalls[2].context = last.context

\* C12 (as claimed): in production mode, a call that repeats the call before it
\* returns the string that call returned, whatever became of the files.
C12_RepeatedCallReturnsSameString ==
    C12_RepeatedCall => /\ last.kind = "return"
                        /\ last.html = recentCalls[2].html

\* The set of the keys of a context
C13_KeySet(context) == {context[k].key : k \in 1..Len(context)}

\* C13 (as claimed): in production mode, a call with the identity of the call
\* before it and a context with the same set of keys, in whatever order and
\* with whatever values, is a cache hit: it reads no file and returns the string
\* the earlier call returned.
C13_SameKeySetIsCacheHit ==
    (/\ IsCall
     /\ last.modeBefore = "production"
     /\ Len(recentCalls) = 2
     /\ recentCalls[2].kind = "return"
     /\ recentCalls[2].templatePath = last.templatePath
     /\ C13_KeySet(recentCalls[2].context) = C13_KeySet(last.context))
    => /\ last.read = <<>>
       /\ last.kind = "return"
       /\ last.html = recentCalls[2].html

\* C14 (as claimed): a call made when NODE_ENV is not production reads the
\* template file again, evaluates it again when it exists, and leaves the
\* template cache as it was.
C14_CacheUntouchedOutsideProduction ==
    (IsCall /\ last.modeBefore # "production") =>
        /\ last.read # <<>>
        /\ last.read[1] = Abs(last.templatePath)
        /\ Abs(last.templatePath) \in DOMAIN files => last.evaluation.ran
        /\ templateCache = last.cacheBefore

\* C15: in every state that clearTemplateCache() leaves, after whatever calls
\* in whatever modes, both caches are empty, and a getTemplateCacheStats() that
\* comes next returns {templates: 0, customElements: 0}.
C15_ClearEmptiesBothCaches ==
    /\ [](last.op = "clearTemplateCache"
             => templateCache = <<>> /\ customElementCache = <<>>)
    /\ [][(last.op = "clearTemplateCache" /\ last'.op = "getTemplateCacheStats")
             => last'.stats = [templates |-> 0, customElements |-> 0]]_vars

\* C15 witness: the caches were cleared after a call in production mode, and
\* are empty
C15_Witness ==
    /\ last.op = "clearTemplateCache"
    /\ last.calls >= 1
    /\ nodeEnv = "production"
    /\ templateCache = <<>>
    /\ customElementCache = <<>>

\* C16 (as claimed): every call of loadTemplate ends, by returning or by
\* failing.
C16_EveryCallEnds == IsCall => last.kind \in {"return", "throw"}

\* path lies in directory dir or below it
IsUnder(path, dir) ==
    /\ Len(path) > Len(dir)
    /\ SubSeq(path, 1, Len(dir)) = dir

\* C17 (as claimed): every file a call of loadTemplate reads lies under the
\* template directory.
C17_ReadsStayUnderTemplatesDir ==
    IsCall => \A k \in 1..Len(last.read) : IsUnder(last.read[k], templatesDir)

\* Two calls that overlapped, both in production from start to end, both on
\* the same cache key, and both done with a cache write
C18_ConcurrentWriters(a, b) ==
    /\ a # b
    /\ pending[a].at = "done" /\ pending[b].at = "done"
    /\ b \in pending[a].during
    /\ \A c \in {a, b} : /\ pending[c].modeBefore = "production"
                         /\ pending[c].modeAfter = "production"
                         /\ pending[c].stored
    /\ CacheKey(Abs(pending[a].templatePath), pending[a].context)
           = CacheKey(Abs(pending[b].templatePath), pending[b].context)

\* C18 (as claimed): two overlapping production calls on the same cache key
\* write equal content under it.
C18_ConcurrentWritesAreEqual ==
    \A a, b \in DOMAIN pending :
        C18_ConcurrentWriters(a, b) => pending[a].html = pending[b].html

\* A tag can open at index i: "<", a letter, and a ">" somewhere after them
C19_OpensTag(html, i) ==
    /\ i + 1 <= Len(html)
    /\ html[i] = "<"
    /\ html[i + 1] \in Letters
    /\ \E g \in (i + 2)..Len(html) : html[g] = ">"

\* The ">" that closes the tag opened at index i
C19_TagClose(html, i) ==
    CHOOSE g \in (i + 2)..Len(html) :
        html[g] = ">" /\ \A k \in (i + 2)..(g - 1) : html[k] # ">"

\* The lower-cased name of the tag opened at index i: the longest run of name
\* characters after the "<"
C19_TagName(html, i) ==
    LET ends == {e \in (i + 1)..Len(html) : \A k \in (i + 1)..e : html[k] \in NameChars}
        e    == CHOOSE m \in ends : \A n \in ends : n <= m
    IN  LowerAll(SubSeq(html, i + 1, e))

\* The indexes where the tags of the markup open: a tag opens only after the
\* tag before it has closed
C19_Tags(html) ==
    LET upTo[i \in 0..Len(html)] ==
            IF i = 0 THEN {}
            ELSE IF /\ C19_OpensTag(html, i)
                    /\ \A j \in upTo[i - 1] : C19_TagClose(html, j) < i
            THEN upTo[i - 1] \cup {i}
            ELSE upTo[i - 1]
    IN  upTo[Len(html)]

C19_HasHyphen(tagName) == \E k \in 1..Len(tagName) : tagName[k] = "-"

\* The tags of the markup whose name has a hyphen or is no standard name
C19_CustomTags(html) ==
    {i \in C19_Tags(html) :
        \/ C19_HasHyphen(C19_TagName(html, i))
        \/ C19_TagName(html, i) \notin standardElements}

\* The index where the first tag named tagName opens
C19_FirstOccurrence(html, tagName) ==
    First({i \in C19_CustomTags(html) : C19_TagName(html, i) = tagName})

\* C19: findCustomElements returns exactly one descriptor for each distinct
\* lower-cased name of a tag that has a hyphen or is no standard name, in the
\* order in which the names first occur, and no descriptor for a standard name
\* without a hyphen.
C19_OneDescriptorPerCustomTag ==
    last.op = "findCustomElements" =>
        LET found == last.customElements
            names == {C19_TagName(last.html, i) : i \in C19_CustomTags(last.html)}
        IN  /\ {found[k].tagName : k \in 1..Len(found)} = names
            /\ Len(found) = Cardinality(names)
            /\ \A k, l \in 1..Len(found) :
                   k < l => C19_FirstOccurrence(last.html, found[k].tagName)
                              < C19_FirstOccurrence(last.html, found[l].tagName)
            /\ \A k \in 1..Len(found) :
                   \/ C19_HasHyphen(found[k].tagName)
                   \/ found[k].tagName \notin standardElements

\* Markup with two custom names, one of them used twice, and a standard tag
C19_Witness ==
    /\ last.op = "findCustomElements"
    /\ Len(last.customElements) = 2
    /\ Cardinality(C19_CustomTags(last.html)) = 3
    /\ C19_Tags(last.html) # C19_CustomTags(last.html)
    /\ last.customElements[1].tagName = <<"x", "-", "y">>

\* &amp; &lt; &gt; &quot; &#x27;
C20_Entities == {
    <<"&", "a", "m", "p", ";">>, <<"&", "l", "t", ";">>, <<"&", "g", "t", ";">>,
    <<"&", "q", "u", "o", "t", ";">>, <<"&", "#", "x", "2", "7", ";">>
    }

\* s has t at index i
C20_HasAt(s, i, t) ==
    /\ i + Len(t) - 1 <= Len(s)
    /\ \A k \in 1..Len(t) : s[i + k - 1] = t[k]

\* C20: what escape returns holds none of < > " ' and every & in it starts one
\* of the five entities; for <script>alert(1)</script> it holds &lt;script&gt;
\* and no <script>.
C20_EscapeLeavesNoMarkup ==
    last.op = "escape" =>
        /\ \A k \in 1..Len(last.result) :
               /\ last.result[k] \notin {"<", ">", "\"", "'"}
               /\ last.result[k] = "&" =>
                      \E entity \in C20_Entities : C20_HasAt(last.result, k, entity)
        /\ last.str = ScriptAlert =>
               /\ Includes(last.result, <<"&", "l", "t", ";", "s", "c", "r", "i", "p", "t",
                                           "&", "g", "t", ";">>)
               /\ ~Includes(last.result, <<"<", "s", "c", "r", "i", "p", "t", ">">>)

\* escape has returned for <script>alert(1)</script>
C20_Witness ==
    /\ last.op = "escape"
    /\ last.str = ScriptAlert
    /\ Len(last.result) > Len(last.str)

\* The latest call was made in production mode with an entry for its key in the
\* cache
C25_CachedCall ==
    /\ IsCall
    /\ last.modeBefore = "production"
    /\ CacheKey(Abs(last.templatePath), last.context) \in DOMAIN last.cacheBefore

\* C25: in production mode a call whose key is in the cache returns the cached
\* string, reads no file, loads no fragment, evaluates nothing and leaves the
\* cache as it was, whether or not the template file still exists.
C25_CacheHitReturnsAtOnce ==
    C25_CachedCall =>
        /\ last.kind = "return"
        /\ last.html = last.cacheBefore[CacheKey(Abs(last.templatePath), last.context)]
        /\ last.read = <<>>
        /\ last.fragments = <<>>
        /\ last.logged = <<>>
        /\ ~last.evaluation.ran
        /\ templateCache = last.cacheBefore
        /\ nodeEnv = last.modeBefore

\* C25 witness: a cached call returned after its template file was removed
C25_Witness ==
    /\ C25_CachedCall
    /\ Abs(last.templatePath) \notin DOMAIN files
    /\ last.kind = "return"
    /\ last.read = <<>>

\* C26 (as claimed): the output of every fragment that the latest call loaded
\* for its own template stands as it is in what the call returns.
C26_FragmentOutputVerbatim ==
    (Evaluated /\ last.kind = "return") =>
        \A f \in OwnFragments : f.kind = "return" => Includes(last.html, f.html)

\* C27 (as claimed): a production call that held the content of its file when
\* clearTemplateCache ran does not store an entry.
C27_ClearInvalidatesLoadsInFlight ==
    \A c \in DOMAIN pending :
        (/\ pending[c].at = "done"
         /\ pending[c].clearedAfterRead
         /\ pending[c].modeBefore = "production"
         /\ pending[c].modeAfter = "production")
        => ~pending[c].stored

\* The latest request, by method and path
IsRequest(method, path) ==
    last.op = "handler" /\ last.req.method = method /\ last.req.path = path

\* C21 (as claimed): a GET of /html-test/results.json after a POST of a JSON
\* object to that path, with no other POST to that path in between, returns
\* every field of the body other than timestamp with the posted value, and a
\* timestamp that is not null.
C21_GetReturnsPostedFields ==
    (IsRequest("GET", ResultsJsonPath) /\ posted.valid) =>
        /\ last.response.statusCode = 200
        /\ \A key \in DOMAIN posted.members \ {"timestamp"} :
               /\ key \in DOMAIN last.response.json
               /\ last.response.json[key] = posted.members[key]
        /\ last.response.json["timestamp"] # JNull

\* The bodies of the requests that are not JSON
C22_InvalidBodies == {InvalidBody, TruncatedBody}

\* The latest request is a POST of invalid JSON to /html-test/results.json
C22_InvalidPost ==
    IsRequest("POST", ResultsJsonPath) /\ last.req.body \in C22_InvalidBodies

C23_CountsAndFiles(results) ==
    LET json == getResultsJson(results).response.json
    IN  [key \in {"total", "passed", "failed", "files"} |-> json[key]]

\* C23 (as claimed): JSON results and TAP output are stored apart.  A POST to
\* /html-test/results.json leaves what a GET of /html-test/results.tap
\* returns, and a POST to /html-test/results.tap leaves the test counts and the
\* files that a GET of /html-test/results.json returns.
C23_StoredSeparately ==
    /\ IsRequest("POST", ResultsJsonPath) =>
           getResultsTap(testResults).response
               = getResultsTap(last.resultsBefore).response
    /\ IsRequest("POST", ResultsTapPath) =>
           C23_CountsAndFiles(testResults) = C23_CountsAndFiles(last.resultsBefore)

\* Whether tail is the end of whole
IsSuffix(tail, whole) ==
    /\ Len(tail) <= Len(whole)
    /\ tail = SubSeq(whole, Len(whole) - Len(tail) + 1, Len(whole))

\* C24 (as claimed): from the start of a run on, unless Clear Output was
\* clicked since, the lines of the test-output component are the TAP stream of
\* the run as the reporter emitted it: 'TAP version 13', the plan '1..N', and
\* what the reporter has written after them.
C24_OutputHoldsTapStream ==
    (last.op = "page" /\ last.runs > 0 /\ ~last.cleared) =>
        /\ Len(testOutput.lines) >= 2
        /\ testOutput.lines[1] = "TAP version 13"
        /\ testOutput.lines[2] = "1.." \o ToString(reporter.testCount)
        /\ IsSuffix(testOutput.lines, reporter.output)

\* The calls of finish among the calls of the reporter in the latest run
C29_Finishes == {k \in 1..Len(last.calls) : last.calls[k].op = "finish"}

\* C29 (as claimed): in every run of runTests on the page, the first or a
\* repeated one, the summary that finish is called with has passed + failed =
\* the number of registered tests = the plan count that start announced.
C29_SummaryMatchesPlan ==
    last.op = "page" =>
        \A k \in C29_Finishes :
            /\ last.calls[k].passed + last.calls[k].failed = Len(suite.tests)
            /\ last.calls[1].op = "start"
            /\ last.calls[1].totalTests = Len(suite.tests)

\* C28: a TestRunner never has two runs active.  A call of runAllTests made
\* while a run is in progress is rejected with 'Tests are already running' and
\* leaves the counters of that run as they are, a call made while no run is in
\* progress is not rejected, and isRunning is true exactly while a run is in
\* progress: it is false again when the run has returned or thrown.
C28_OneRunAtATime ==
    last.op = "runner" =>
        /\ Cardinality(ActiveCalls) <= 1
        /\ runner.isRunning <=> ActiveCalls # {}
        /\ last.event \in {"began", "rejected"} =>
               (last.event = "rejected" <=> last.activeBefore # {})
        /\ last.event = "rejected" =>
               /\ runner.calls[last.caller].at = "threw"
               /\ runner.calls[last.caller].error = "Tests are already running"
               /\ runner.testResults = last.before
               /\ ActiveCalls = last.activeBefore

\* A call is rejected while the run in progress has counted a test and waits
\* for another
C28_Witness ==
    /\ last.op = "runner"
    /\ last.event = "rejected"
    /\ runner.testResults.passed + runner.testResults.failed > 0
    /\ runner.testResults.total > runner.testResults.passed + runner.testResults.failed

\* The tests of the files that loaded without an error
RECURSIVE C30_TestsOf(_)
C30_TestsOf(testFiles) ==
    IF testFiles = <<>> THEN <<>>
    ELSE (IF Head(testFiles).error = "" THEN Head(testFiles).tests ELSE <<>>)
         \o C30_TestsOf(Tail(testFiles))

\* C30 (as claimed): a call of runAllTests that has reached the execution phase
\* and has ended has driven the reporter with start(N), then one pass or fail
\* for each test number 1..N in increasing order, then finish; the counts given
\* to finish have passed + failed = N = testResults.total; and N counts the
\* tests of the files that loaded, while testResults.files holds those files.
C30_ReporterCallsInOrder ==
    (/\ last.op = "runner"
     /\ last.calls # <<>>
     /\ runner.calls[last.runCaller].at \in {"returned", "threw"})
    => LET N == Len(C30_TestsOf(last.loaded))
       IN  /\ Len(last.calls) = N + 2
           /\ last.calls[1] = [op |-> "start", totalTests |-> N]
           /\ \A k \in 1..N :
                  /\ last.calls[k + 1].op \in {"pass", "fail"}
                  /\ last.calls[k + 1].testNumber = k
           /\ last.calls[N + 2].op = "finish"
           /\ last.calls[N + 2].passed + last.calls[N + 2].failed = N
           /\ runner.testResults.total = N
           /\ runner.testResults.files
                  = SelectSeq(last.loaded, LAMBDA file : file.error = "")

====
